---- MODULE Spec2Model ----
(***************************************************************************)
(* Model of the Smarty extension's session store (ChromeStorageService)    *)
(* and of the background dispatcher (handleMessage and the event           *)
(* listeners) that drives it.                                              *)
(*                                                                         *)
(* Every handler is an async function.  A handler runs without             *)
(* interruption up to its next `await`; the awaited chrome.storage         *)
(* operation takes effect when the handler resumes.  One action of the     *)
(* model is therefore: the awaited storage operation, followed by the      *)
(* synchronous code up to the next await.  Handlers that are suspended at  *)
(* an await interleave freely.                                             *)
(*                                                                         *)
(* Assumptions of the model, all stated here:                              *)
(*   - generateId() returns a fresh id on every call (no collisions);      *)
(*   - SHA-256 is collision free on the passwords used;                    *)
(*   - chrome.storage.local calls do not fail, except under SpecFaults;    *)
(*   - the clock is counted in hours (MsPerTick milliseconds).             *)
(***************************************************************************)
EXTENDS Integers, Sequences, FiniteSets, TLC

VARIABLES
    store,        \* chrome.storage.local: one field per key
    currentUser,  \* ChromeStorageService.currentUser (in memory)
    isInitialized,\* ChromeStorageService.isInitialized
    initPc,       \* position of the constructor's initialize() call
    proc,         \* the handler invocations in progress: position, arguments, locals
    last,         \* the invocation that finished last, with its response
    now,          \* Date.now()
    nextId,       \* source of generateId()
    ops,          \* number of requests and events dispatched so far
    ticks,        \* number of clock advances so far
    hist,         \* history of the run, read only by the properties
    cs            \* the content script of a tab: its page and its last response

vars == <<store, currentUser, isInitialized, initPc, proc, last, now, nextId, ops, ticks, hist, cs>>

\* the variables of the background context
bgVars == <<store, currentUser, isInitialized, initPc, proc, last, now, nextId, ops, ticks, hist>>

----------------------------------------------------------------------------
(* Bounds of the model *)

MaxOps == 2
MaxTicks == 1
NumProcs == 2
MaxWords == 2
MaxElements == 2
MaxControls == 2
MaxKeys == 2
MaxTimers == 2

Procs == 1..NumProcs

----------------------------------------------------------------------------
(* Program constants *)

MsPerTick == 60 * 60 * 1000
TokenLifetime == (7 * 24 * 60 * 60 * 1000) \div MsPerTick
ActivityCap == 100
MinPasswordLength == 6
MinNameLength == 2
Salt == "smarty_salt"

Null == [null |-> TRUE]

----------------------------------------------------------------------------
(* Strings that the code inspects character by character are sequences of  *)
(* one-character strings.                                                  *)

Whitespace == {" "}
UpperCase == <<"A", "D">>
LowerCase == <<"a", "d">>

LowerChar(c) ==
    IF \E i \in 1..Len(UpperCase) : UpperCase[i] = c
    THEN LowerCase[CHOOSE i \in 1..Len(UpperCase) : UpperCase[i] = c]
    ELSE c

ToLowerCase(s) == [i \in 1..Len(s) |-> LowerChar(s[i])]

RECURSIVE TrimStart(_)
TrimStart(s) ==
    IF s # <<>> /\ Head(s) \in Whitespace THEN TrimStart(Tail(s)) ELSE s

RECURSIVE TrimEnd(_)
TrimEnd(s) ==
    IF s # <<>> /\ s[Len(s)] \in Whitespace
    THEN TrimEnd(SubSeq(s, 1, Len(s) - 1))
    ELSE s

Trim(s) == TrimEnd(TrimStart(s))

\* /^[^\s@]+@[^\s@]+\.[^\s@]+$/
isValidEmail(email) ==
    \E i \in 1..Len(email), j \in 1..Len(email) :
        /\ email[i] = "@"
        /\ email[j] = "."
        /\ 2 <= i
        /\ i + 2 <= j
        /\ j + 1 <= Len(email)
        /\ \A k \in 1..Len(email) :
               k # i => email[k] \notin (Whitespace \cup {"@"})

\* mutant: the boundary taken strictly
isValidPasswordStrict(password) == Len(password) > MinPasswordLength

isValidPassword(password) == Len(password) >= MinPasswordLength

isValidName(name) == ~(Len(Trim(name)) < MinNameLength)

hashPassword(password) == <<"sha256", password \o Salt>>

----------------------------------------------------------------------------
(* Array helpers *)

\* mutant: the emails compared without toLowerCase()
FindByEmailExact(users, email) ==
    IF \E i \in 1..Len(users) : users[i].email = email
    THEN users[CHOOSE i \in 1..Len(users) :
                 /\ users[i].email = email
                 /\ \A j \in 1..(i - 1) : users[j].email # email]
    ELSE Null

\* users.find(u => u.email.toLowerCase() === email.toLowerCase())
FindByEmail(users, email) ==
    IF \E i \in 1..Len(users) : ToLowerCase(users[i].email) = ToLowerCase(email)
    THEN users[CHOOSE i \in 1..Len(users) :
                 /\ ToLowerCase(users[i].email) = ToLowerCase(email)
                 /\ \A j \in 1..(i - 1) : ToLowerCase(users[j].email) # ToLowerCase(email)]
    ELSE Null

\* credentials.find(cred => cred.userId === user.id)
FindCredential(creds, userId) ==
    IF \E i \in 1..Len(creds) : creds[i].userId = userId
    THEN creds[CHOOSE i \in 1..Len(creds) :
                 /\ creds[i].userId = userId
                 /\ \A j \in 1..(i - 1) : creds[j].userId # userId]
    ELSE Null

\* users.findIndex(u => u.id === user.id); 0 stands for -1
FindIndexById(users, id) ==
    IF \E i \in 1..Len(users) : users[i].id = id
    THEN CHOOSE i \in 1..Len(users) :
             /\ users[i].id = id
             /\ \A j \in 1..(i - 1) : users[j].id # id
    ELSE 0

\* mutant: the cap tested one entry too late
UnshiftCappedLate(activities, activity) ==
    LET all == <<activity>> \o activities
    IN  IF Len(all) > ActivityCap + 1 THEN SubSeq(all, 1, ActivityCap) ELSE all

\* mutant: the entry behind the new one is dropped instead of the oldest
UnshiftCappedNewestEvicted(activities, activity) ==
    IF Len(activities) + 1 > ActivityCap
    THEN <<activity>> \o SubSeq(activities, 2, ActivityCap)
    ELSE <<activity>> \o activities

\* activities.unshift(activity); if (activities.length > 100) activities.splice(100)
UnshiftCapped(activities, activity) ==
    LET all == <<activity>> \o activities
    IN  IF Len(all) > ActivityCap THEN SubSeq(all, 1, ActivityCap) ELSE all

\* mutant: the new items put behind the stored ones
UnshiftAtEnd(list, items) == list \o items

\* list.unshift(...items)
Unshift(list, items) == items \o list

\* the members of a list, as a set
Range(list) == {list[i] : i \in 1..Len(list)}

\* mutant: the stored records that the written array lacks are kept behind it
SetValueMerged(old, data) == data \o SelectSeq(old, LAMBDA x : x \notin Range(data))

\* chrome.storage.local.set({ [key]: data }): the key's value is replaced
SetValue(old, data) == data

----------------------------------------------------------------------------
(* Inputs *)

EmailA == <<"a", "@", "b", ".", "c">>
EmailAUpper == <<"A", "@", "b", ".", "c">>
EmailD == <<"d", "@", "b", ".", "c">>

Emails == {EmailA, EmailAUpper, EmailD}
Passwords == {"abcdef", "abcde"}
Names == {<<"A", "l">>, <<"a", " ">>}

SaveOps == {"save_summary", "save_leads", "save_price_monitor"}
LogOps == {"log_activity", "tab_updated", "alarm_price_check", "alarm_social_media_post"}

\* the collection a save action writes, and the activity it logs
CollectionOf(op) ==
    CASE op = "save_summary" -> "contentSummaries"
      [] op = "save_leads" -> "leads"
      [] op = "save_price_monitor" -> "priceMonitors"

ActivityOf(op) ==
    CASE op = "save_summary" -> "content_summarized"
      [] op = "save_leads" -> "leads_extracted"
      [] op = "save_price_monitor" -> "price_monitor_created"
      [] op = "log_activity" -> "custom"
      [] op = "tab_updated" -> "page_visited"
      [] op = "alarm_price_check" -> "price_check_scheduled"
      [] op = "alarm_social_media_post" -> "scheduled_posts_check"

\* number of records in the payload of a save action (data.leads has two leads)
PayloadSize(op) == IF op = "save_leads" THEN 2 ELSE 1

----------------------------------------------------------------------------
(* Records *)

EmptyStore ==
    [users |-> <<>>, userCredentials |-> <<>>, contentSummaries |-> <<>>,
     leads |-> <<>>, priceMonitors |-> <<>>, userActivities |-> <<>>,
     currentUser |-> Null, authToken |-> Null, tokenExpiry |-> 0]

User(id, email, name, t) ==
    [id |-> id, email |-> ToLowerCase(email), name |-> Trim(name),
     createdAt |-> t, updatedAt |-> t]

Credential(id, email, password) ==
    [userId |-> id, email |-> ToLowerCase(email), passwordHash |-> hashPassword(password)]

\* `token_${user.id}_${Date.now()}_${Math.random().toString(36)}`
Token(id, t) == [userId |-> id, issuedAt |-> t]

Activity(id, userId, action) == [id |-> id, userId |-> userId, action |-> action]

\* the dispatcher's envelope { success, data?, error? }; "" stands for no error
Response(success, data, error) == [success |-> success, data |-> data, error |-> error]

NotAuthenticated == Response(FALSE, Null, "User not authenticated")

\* a document: its URL and title, the text of its body, and its elements in
\* document order, each with the selector it answers to and its text
Page(url, title, body, elements) ==
    [url |-> url, title |-> title, body |-> body, elements |-> elements]

\* the content script loaded into `page`: nothing handled yet, no panel shown;
\* `selector` is data.selector of the message handled last ("" when absent)
ContentScript(page) ==
    [page |-> page, op |-> "none", selector |-> "", resp |-> Null, ui |-> FALSE]

\* the content script of a tab that plays no part in a run of the background
IdleContentScript == ContentScript(Page("about:blank", "", <<>>, <<>>))

IdleProc ==
    [op |-> "none", pc |-> "idle",
     email |-> <<>>, password |-> "", name |-> <<>>,
     users |-> <<>>, creds |-> <<>>, user |-> Null, cred |-> Null,
     token |-> Null, expiry |-> 0, list |-> <<>>, recs |-> <<>>,
     hasData |-> TRUE, counts |-> <<>>,
     resp |-> Null,
     faulted |-> FALSE,
     solo |-> FALSE, regId |-> 0, noSession |-> FALSE, expired |-> FALSE,
     postSignOut |-> FALSE, postClear |-> FALSE, early |-> FALSE, sessionLeft |-> FALSE,
     evicted |-> FALSE, registered |-> FALSE]

Busy(p) == proc[p].pc # "idle"

\* a new invocation takes the first slot that holds no running handler
FreeSlot(p) == ~Busy(p) /\ \A q \in Procs : q < p => Busy(q)

CanDispatch(p) == ops < MaxOps /\ FreeSlot(p)

\* what getCurrentUser accepts as a stored session
StoredSession(s) == s.currentUser # Null /\ s.authToken # Null /\ s.tokenExpiry # 0

SessionExpired(s, t) == s.tokenExpiry # 0 /\ t > s.tokenExpiry

\* no user in memory and no unexpired session in storage
NoActiveSession ==
    currentUser = Null /\ ~(StoredSession(store) /\ ~SessionExpired(store, now))

\* some user record carries this email, letter case ignored
Registered(users, email) ==
    \E i \in 1..Len(users) : ToLowerCase(users[i].email) = ToLowerCase(email)

\* the invocation record of a request as it is dispatched
NewProc(op, email, password, name) ==
    [IdleProc EXCEPT
        !.op = op, !.pc = "start", !.email = email, !.password = password, !.name = name,
        !.solo = (initPc = "done" /\ \A q \in Procs : ~Busy(q)),
        !.regId = IF \E r \in hist.reg : r.email = ToLowerCase(email) /\ r.password = password
                  THEN (CHOOSE r \in hist.reg :
                            r.email = ToLowerCase(email) /\ r.password = password).id
                  ELSE 0,
        !.noSession = NoActiveSession,
        !.expired = SessionExpired(store, now),
        !.postSignOut = hist.signedOut,
        !.postClear = hist.sessionCleared,
        !.early = initPc = "reading" /\ StoredSession(store) /\ ~SessionExpired(store, now),
        !.registered = Registered(store.users, email)]

\* the invocation ends: its locals are dropped, its response is kept
Finish(r, resp) ==
    [r EXCEPT !.pc = "done", !.resp = resp,
              !.users = <<>>, !.creds = <<>>, !.cred = Null,
              !.token = Null, !.expiry = 0, !.list = <<>>, !.counts = <<>>]

\* p's record becomes r; a finished invocation leaves its slot and is kept in
\* `last`.  A handler left suspended overlaps the handlers that are running
\* (`starts`); a sign-in or sign-up that has installed its user supersedes the
\* sign-outs before it (`signedIn`).
SetProc(p, r, starts, signedIn) ==
    /\ proc' = [q \in Procs |->
                   IF q = p THEN (IF r.pc = "done" THEN IdleProc ELSE r)
                   ELSE [proc[q] EXCEPT
                           !.solo = IF starts /\ r.pc # "done" /\ Busy(q) THEN FALSE ELSE @,
                           !.postSignOut = IF signedIn /\ Busy(q) THEN FALSE ELSE @]]
    /\ last' = IF r.pc = "done" THEN r ELSE last

Step(p, r) == SetProc(p, r, FALSE, FALSE)

Dispatch(p, r) == SetProc(p, r, TRUE, FALSE) /\ ops' = ops + 1

----------------------------------------------------------------------------
(* Initial states: a fresh installation, or a restart of the background    *)
(* context over data persisted by an earlier run.                          *)

PersistedUserId == ActivityCap + 1
FirstFreshId == PersistedUserId + 1
StartTime == TokenLifetime + 1

PersistedUser == [User(PersistedUserId, EmailA, <<"A", "l">>, 0) EXCEPT !.updatedAt = 0]

PersistedActivities(n) ==
    [i \in 1..n |-> Activity(i, PersistedUserId, "page_visited")]

\* a store left by an earlier run: one account, signed in at time `signedInAt`
PersistedStore(signedInAt, n) ==
    [EmptyStore EXCEPT
        !.users = <<PersistedUser>>,
        !.userCredentials = <<Credential(PersistedUserId, EmailA, "abcdef")>>,
        !.userActivities = PersistedActivities(n),
        !.currentUser = PersistedUser,
        !.authToken = Token(PersistedUserId, signedInAt),
        !.tokenExpiry = signedInAt + TokenLifetime]

EmptyHist ==
    [everPw |-> {}, created |-> {}, cleared |-> FALSE, signedOut |-> FALSE, reg |-> {},
     saved |-> {}, sessionCleared |-> FALSE, overlapped |-> FALSE]

InitBackground ==
    /\ \/ /\ store = EmptyStore
          /\ hist = EmptyHist
       \/ /\ store \in {PersistedStore(StartTime - 1, ActivityCap - 1),
                        PersistedStore(0, ActivityCap)}
          /\ hist = [EmptyHist EXCEPT
                        !.everPw = {<<EmailA, "abcdef">>},
                        !.reg = {[email |-> EmailA, password |-> "abcdef",
                                  id |-> PersistedUserId]}]
    /\ currentUser = Null
    /\ isInitialized = FALSE
    /\ initPc = "reading"
    /\ proc = [p \in Procs |-> IdleProc]
    /\ last = IdleProc
    /\ now = StartTime
    /\ nextId = FirstFreshId
    /\ ops = 0
    /\ ticks = 0

Init == InitBackground /\ cs = IdleContentScript

----------------------------------------------------------------------------
(* ChromeStorageService.initialize, called by the constructor *)

Initialize ==
    /\ initPc = "reading"
    /\ initPc' = "done"
    /\ currentUser' = IF store.currentUser # Null THEN store.currentUser ELSE currentUser
    /\ isInitialized' = TRUE
    /\ UNCHANGED <<cs, store, proc, last, now, nextId, ops, ticks, hist>>

\* time passes
Tick ==
    /\ ticks < MaxTicks
    /\ \E d \in {TokenLifetime, TokenLifetime + 1} : now' = now + d
    /\ ticks' = ticks + 1
    /\ UNCHANGED <<cs, store, currentUser, isInitialized, initPc, proc, last, nextId, ops, hist>>

----------------------------------------------------------------------------
(* ChromeStorageService.signUp, reached through handleMessage's 'sign_up' *)

\* { success: !result.error, data: result.user, error: result.error || undefined }
AuthResponse(user, error) == Response(error = "", user, error)

\* mutant: the name is not checked
SignUpValidationNoName(email, password, name) ==
    IF email = <<>> \/ password = "" \/ name = <<>> THEN "All fields are required"
    ELSE IF ~isValidEmail(email) THEN "Please enter a valid email address"
    ELSE IF ~isValidPassword(password) THEN "Password must be at least 6 characters long"
    ELSE ""

\* the checks made before the store is read; "" when all pass
SignUpValidation(email, password, name) ==
    IF email = <<>> \/ password = "" \/ name = <<>> THEN "All fields are required"
    ELSE IF ~isValidEmail(email) THEN "Please enter a valid email address"
    ELSE IF ~isValidPassword(password) THEN "Password must be at least 6 characters long"
    ELSE IF ~isValidName(name) THEN "Name must be at least 2 characters long"
    ELSE ""

HandleSignUp(p, email, password, name) ==
    /\ CanDispatch(p)
    /\ LET r == NewProc("sign_up", email, password, name)
           error == SignUpValidation(email, password, name)
       IN  IF error # ""
           THEN Dispatch(p, Finish(r, AuthResponse(Null, error)))
           ELSE Dispatch(p, [r EXCEPT !.pc = "su_read_users"])
    /\ UNCHANGED <<cs, store, currentUser, isInitialized, initPc, now, nextId, ticks, hist>>

\* const users = await getStorageData('users'); existingUser check; hashPassword issued
SignUpReadUsers(p) ==
    /\ proc[p].pc = "su_read_users"
    /\ LET r == proc[p]
           users == store.users
           seen == [r EXCEPT !.registered = Registered(users, r.email)]
       IN  IF FindByEmail(users, r.email) # Null
           THEN Step(p, Finish(seen, AuthResponse(Null, "An account with this email already exists")))
           ELSE Step(p, [seen EXCEPT !.pc = "su_hash", !.users = users])
    /\ UNCHANGED <<cs, store, currentUser, isInitialized, initPc, now, nextId, ops, ticks, hist>>

\* the digest is there: newUser, userCredentials, users.push(newUser), set issued
SignUpHash(p) ==
    /\ proc[p].pc = "su_hash"
    /\ LET r == proc[p]
           newUser == User(nextId, r.email, r.name, now)
       IN  /\ Step(p, [r EXCEPT !.pc = "su_write_users",
                                !.user = newUser,
                                !.cred = Credential(nextId, r.email, r.password),
                                !.users = Append(r.users, newUser)])
           /\ hist' = [hist EXCEPT
                          !.everPw = @ \cup {<<ToLowerCase(r.email), r.password>>}]
    /\ nextId' = nextId + 1
    /\ UNCHANGED <<cs, store, currentUser, isInitialized, initPc, now, ops, ticks>>

\* setStorageData('users', users) done; getStorageData('userCredentials') issued
SignUpWriteUsers(p) ==
    /\ proc[p].pc = "su_write_users"
    /\ store' = [store EXCEPT !.users = proc[p].users]
    /\ Step(p, [proc[p] EXCEPT !.pc = "su_read_creds", !.users = <<>>])
    /\ UNCHANGED <<cs, currentUser, isInitialized, initPc, now, nextId, ops, ticks, hist>>

\* credentials read; credentials.push(userCredentials); set issued
SignUpReadCreds(p) ==
    /\ proc[p].pc = "su_read_creds"
    /\ Step(p, [proc[p] EXCEPT !.pc = "su_write_creds",
                               !.creds = Append(store.userCredentials, proc[p].cred)])
    /\ UNCHANGED <<cs, store, currentUser, isInitialized, initPc, now, nextId, ops, ticks, hist>>

\* credentials written; token minted; this.currentUser = newUser; session set issued
SignUpWriteCreds(p) ==
    /\ proc[p].pc = "su_write_creds"
    /\ store' = [store EXCEPT !.userCredentials = proc[p].creds]
    /\ currentUser' = proc[p].user
    /\ SetProc(p, [proc[p] EXCEPT !.pc = "su_write_session",
                                  !.creds = <<>>,
                                  !.token = Token(proc[p].user.id, now),
                                  !.expiry = now + TokenLifetime],
               FALSE, TRUE)
    /\ hist' = [hist EXCEPT !.signedOut = FALSE, !.sessionCleared = FALSE,
                             !.overlapped = FALSE]
    /\ UNCHANGED <<cs, isInitialized, initPc, now, nextId, ops, ticks>>

\* session written; return { user: newUser, error: null, token }
SignUpWriteSession(p) ==
    /\ proc[p].pc = "su_write_session"
    /\ LET r == proc[p]
       IN  /\ store' = [store EXCEPT !.currentUser = r.user,
                                     !.authToken = r.token,
                                     !.tokenExpiry = r.expiry]
           /\ Step(p, Finish(r, AuthResponse(r.user, "")))
           /\ hist' = [hist EXCEPT
                          !.created = @ \cup {r.user.id},
                          !.reg = IF r.solo
                                  THEN @ \cup {[email |-> ToLowerCase(r.email),
                                                password |-> r.password,
                                                id |-> r.user.id]}
                                  ELSE @]
    /\ UNCHANGED <<cs, currentUser, isInitialized, initPc, now, nextId, ops, ticks>>

----------------------------------------------------------------------------
(* ChromeStorageService.signIn, reached through handleMessage's 'sign_in' *)

SignInValidation(email, password) ==
    IF email = <<>> \/ password = "" THEN "Email and password are required"
    ELSE IF ~isValidEmail(email) THEN "Please enter a valid email address"
    ELSE ""

HandleSignIn(p, email, password) ==
    /\ CanDispatch(p)
    /\ LET r == NewProc("sign_in", email, password, <<>>)
           error == SignInValidation(email, password)
       IN  IF error # ""
           THEN Dispatch(p, Finish(r, AuthResponse(Null, error)))
           ELSE Dispatch(p, [r EXCEPT !.pc = "si_read_users"])
    /\ UNCHANGED <<cs, store, currentUser, isInitialized, initPc, now, nextId, ticks, hist>>

\* users read; users.find by email; credentials read issued
SignInReadUsers(p) ==
    /\ proc[p].pc = "si_read_users"
    /\ LET r == proc[p]
           users == store.users
           user == FindByEmail(users, r.email)
       IN  IF user = Null
           THEN Step(p, Finish(r, AuthResponse(Null, "Invalid email or password")))
           ELSE Step(p, [r EXCEPT !.pc = "si_read_creds", !.users = users, !.user = user])
    /\ UNCHANGED <<cs, store, currentUser, isInitialized, initPc, now, nextId, ops, ticks, hist>>

\* credentials read; credentials.find by user id; hashPassword issued
SignInReadCreds(p) ==
    /\ proc[p].pc = "si_read_creds"
    /\ LET r == proc[p]
           cred == FindCredential(store.userCredentials, r.user.id)
       IN  IF cred = Null
           THEN Step(p, Finish(r, AuthResponse(Null, "Account not found. Please sign up first.")))
           ELSE Step(p, [r EXCEPT !.pc = "si_hash", !.cred = cred])
    /\ UNCHANGED <<cs, store, currentUser, isInitialized, initPc, now, nextId, ops, ticks, hist>>

\* mutant: the digests compared by length only
PasswordMatchesByLength(password, cred) ==
    Len(hashPassword(password)) = Len(cred.passwordHash)

\* hashedPassword !== userCredential.passwordHash
PasswordMatches(password, cred) == hashPassword(password) = cred.passwordHash

\* user.updatedAt = new Date(); users[userIndex] = user
TouchUser(users, user) ==
    LET userIndex == FindIndexById(users, user.id)
    IN  IF userIndex # 0 THEN [users EXCEPT ![userIndex] = user] ELSE users

\* digest compared; token minted; updatedAt touched; users set issued
SignInHash(p) ==
    /\ proc[p].pc = "si_hash"
    /\ LET r == proc[p]
           user == [r.user EXCEPT !.updatedAt = now]
       IN  IF ~PasswordMatches(r.password, r.cred)
           THEN Step(p, Finish(r, AuthResponse(Null, "Invalid email or password")))
           ELSE Step(p, [r EXCEPT !.pc = "si_write_users",
                                  !.cred = Null,
                                  !.user = user,
                                  !.token = Token(user.id, now),
                                  !.users = TouchUser(r.users, user)])
    /\ UNCHANGED <<cs, store, currentUser, isInitialized, initPc, now, nextId, ops, ticks, hist>>

\* users written; this.currentUser = user; session set issued
SignInWriteUsers(p) ==
    /\ proc[p].pc = "si_write_users"
    /\ store' = [store EXCEPT !.users = proc[p].users]
    /\ currentUser' = proc[p].user
    /\ SetProc(p, [proc[p] EXCEPT !.pc = "si_write_session",
                                  !.users = <<>>,
                                  !.expiry = now + TokenLifetime],
               FALSE, TRUE)
    /\ hist' = [hist EXCEPT !.signedOut = FALSE, !.sessionCleared = FALSE,
                             !.overlapped = FALSE]
    /\ UNCHANGED <<cs, isInitialized, initPc, now, nextId, ops, ticks>>

\* session written; return { user, error: null, token }
SignInWriteSession(p) ==
    /\ proc[p].pc = "si_write_session"
    /\ LET r == proc[p]
       IN  /\ store' = [store EXCEPT !.currentUser = r.user,
                                     !.authToken = r.token,
                                     !.tokenExpiry = r.expiry]
           /\ Step(p, Finish(r, AuthResponse(r.user, "")))
    /\ UNCHANGED <<cs, currentUser, isInitialized, initPc, now, nextId, ops, ticks, hist>>

----------------------------------------------------------------------------
(* ChromeStorageService.signOut *)

\* whether a user is left in memory or a session key in storage
SessionLeft(mem, s) == mem # Null \/ s.currentUser # Null \/ s.authToken # Null \/ s.tokenExpiry # 0

\* mutant: only the user is removed
RemoveSessionUserOnly(s) == [s EXCEPT !.currentUser = Null]

\* chrome.storage.local.remove(['currentUser', 'authToken', 'tokenExpiry'])
RemoveSession(s) == [s EXCEPT !.currentUser = Null, !.authToken = Null, !.tokenExpiry = 0]

\* a read of the session keys, issued by initialize or by getCurrentUser,
\* has not been answered yet
ReadInFlight == initPc = "reading" \/ \E q \in Procs : proc[q].pc = "gu_read"

\* this.currentUser = null; remove issued
HandleSignOut(p) ==
    /\ CanDispatch(p)
    /\ currentUser' = Null
    /\ Dispatch(p, [NewProc("sign_out", <<>>, "", <<>>) EXCEPT !.pc = "so_remove"])
    /\ hist' = [hist EXCEPT !.overlapped = @ \/ ReadInFlight]
    /\ UNCHANGED <<cs, store, isInitialized, initPc, now, nextId, ticks>>

\* session keys removed; return { error: null }
SignOutRemove(p) ==
    /\ proc[p].pc = "so_remove"
    /\ store' = RemoveSession(store)
    /\ Step(p, [Finish(proc[p], Response(TRUE, Null, ""))
                   EXCEPT !.sessionLeft = SessionLeft(currentUser, RemoveSession(store))])
    /\ hist' = [hist EXCEPT !.signedOut = TRUE]
    /\ UNCHANGED <<cs, currentUser, isInitialized, initPc, now, nextId, ops, ticks>>

----------------------------------------------------------------------------
(* handleMessage's 'get_user': a 100 ms timer, then getCurrentUser *)

HandleGetUser(p) ==
    /\ CanDispatch(p)
    /\ Dispatch(p, [NewProc("get_user", <<>>, "", <<>>) EXCEPT !.pc = "gu_timer"])
    /\ UNCHANGED <<cs, store, currentUser, isInitialized, initPc, now, nextId, ticks, hist>>

\* if (!this.currentUser) the session keys are read, else the memoized user is returned
GetUserMemoized(mem) == mem # Null

\* getCurrentUser has returned `user` to its caller in handleMessage:
\* 'get_user' answers it; 'get_user_stats' answers "User not authenticated"
\* for null and else enters getUserUsage, whose first read is issued
ReturnUser(p, r, user, left) ==
    IF r.op = "get_user_stats"
    THEN IF user = Null
         THEN Step(p, Finish(r, NotAuthenticated))
         ELSE Step(p, [r EXCEPT !.pc = "us_summaries", !.user = user])
    ELSE Step(p, [Finish(r, Response(TRUE, user, "")) EXCEPT !.sessionLeft = left])

\* timer fired; getCurrentUser entered
GetUserTimer(p) ==
    /\ proc[p].pc = "gu_timer"
    /\ IF GetUserMemoized(currentUser)
       THEN ReturnUser(p, proc[p], currentUser, SessionLeft(currentUser, store))
       ELSE Step(p, [proc[p] EXCEPT !.pc = "gu_read"])
    /\ UNCHANGED <<cs, store, currentUser, isInitialized, initPc, now, nextId, ops, ticks, hist>>

\* session keys read; expiry checked; signOut entered or user memoized
GetUserRead(p) ==
    /\ proc[p].pc = "gu_read"
    /\ IF StoredSession(store)
       THEN IF now > store.tokenExpiry
            THEN /\ currentUser' = Null
                 /\ Step(p, [proc[p] EXCEPT !.pc = "gu_signout"])
            ELSE /\ currentUser' = store.currentUser
                 /\ ReturnUser(p, proc[p], store.currentUser, TRUE)
       ELSE /\ currentUser' = currentUser
            /\ ReturnUser(p, proc[p], currentUser, SessionLeft(currentUser, store))
    /\ UNCHANGED <<cs, store, isInitialized, initPc, now, nextId, ops, ticks, hist>>

\* the expired session's keys removed; getCurrentUser returns null
GetUserSignOut(p) ==
    /\ proc[p].pc = "gu_signout"
    /\ store' = RemoveSession(store)
    /\ ReturnUser(p, proc[p], Null, SessionLeft(currentUser, RemoveSession(store)))
    /\ UNCHANGED <<cs, currentUser, isInitialized, initPc, now, nextId, ops, ticks, hist>>

----------------------------------------------------------------------------
(* saveContentSummary / saveLeads / savePriceMonitor and logUserActivity,   *)
(* reached through handleMessage and through the tab and alarm listeners   *)

\* the new records of a save, each with an id of its own
NewRecords(op, firstId) ==
    [i \in 1..PayloadSize(op) |-> [id |-> firstId + i - 1, kind |-> op]]

\* mutant: the authentication check left out
SaveAllowedAlways(mem) == TRUE

\* if (!this.currentUser) throw new Error('User not authenticated')
SaveAllowed(mem) == mem # Null

\* if (!this.currentUser) return
LogAllowed(mem) == mem # Null

\* the listeners answer nothing; handleMessage answers { success: true }
Answers(op) == op \in SaveOps \cup {"log_activity"}

Success(op) == IF Answers(op) THEN Response(TRUE, Null, "") ELSE Null

\* mutant: the exception leaves handleMessage, nothing is answered
Escapes(error) == Null

\* handleMessage's catch: { success: false, error: error.message }
Caught(error) == Response(FALSE, Null, error)

Failure(op, error) == IF Answers(op) THEN Caught(error) ELSE Null

\* reading a field of the payload when the message carries no data
TypeErrorMessage == "Cannot read properties of undefined"

\* the save method is entered with the payload, or with undefined
DispatchSave(p, op, hasData) ==
    /\ CanDispatch(p)
    /\ LET r == [NewProc(op, <<>>, "", <<>>) EXCEPT !.hasData = hasData]
       IN  IF SaveAllowed(currentUser)
           THEN Dispatch(p, [r EXCEPT !.pc = "sv_read"])
           ELSE Dispatch(p, Finish(r, NotAuthenticated))
    /\ UNCHANGED <<cs, store, currentUser, isInitialized, initPc, now, nextId, ticks, hist>>

HandleSave(p, op) == DispatchSave(p, op, TRUE)

\* 'save_summary' and 'save_price_monitor' without a payload hand undefined
\* over: { ...undefined, id } is a record, data.url fails after the save.
\* 'save_leads' with a payload that has no leads: leads.map fails after the read
HandleSaveNoPayload(p, op) == DispatchSave(p, op, FALSE)

\* the history once invocation r has answered: the records of a save that
\* answered success are remembered
Answered(r, resp) ==
    IF r.op \in SaveOps /\ resp # Null /\ resp.success
    THEN [hist EXCEPT !.saved = @ \cup Range(r.recs)]
    ELSE hist

\* collection read; new records put in front; set issued
SaveRead(p) ==
    /\ proc[p].pc = "sv_read"
    /\ LET op == proc[p].op
           recs == NewRecords(op, nextId)
       IN  IF op = "save_leads" /\ ~proc[p].hasData
           THEN /\ Step(p, Finish(proc[p], Failure(op, TypeErrorMessage)))
                /\ nextId' = nextId
           ELSE /\ Step(p, [proc[p] EXCEPT
                               !.pc = "sv_write",
                               !.recs = recs,
                               !.list = Unshift(store[CollectionOf(op)], recs)])
                /\ nextId' = nextId + PayloadSize(op)
    /\ UNCHANGED <<cs, store, currentUser, isInitialized, initPc, now, ops, ticks, hist>>

\* collection written; logUserActivity entered
SaveWrite(p) ==
    /\ proc[p].pc = "sv_write"
    /\ LET c == CollectionOf(proc[p].op)
       IN  store' = [store EXCEPT ![c] = SetValue(store[c], proc[p].list)]
    /\ IF ~proc[p].hasData
       THEN /\ Step(p, Finish(proc[p], Failure(proc[p].op, TypeErrorMessage)))
            /\ hist' = hist
       ELSE IF LogAllowed(currentUser)
       THEN /\ Step(p, [proc[p] EXCEPT !.pc = "log_read", !.list = <<>>])
            /\ hist' = hist
       ELSE /\ Step(p, Finish(proc[p], Success(proc[p].op)))
            /\ hist' = Answered(proc[p], Success(proc[p].op))
    /\ UNCHANGED <<cs, currentUser, isInitialized, initPc, now, nextId, ops, ticks>>

\* 'log_activity', chrome.tabs.onUpdated, chrome.alarms.onAlarm
HandleLog(p, op) ==
    /\ CanDispatch(p)
    /\ IF LogAllowed(currentUser)
       THEN Dispatch(p, [NewProc(op, <<>>, "", <<>>) EXCEPT !.pc = "log_read"])
       ELSE Dispatch(p, Finish(NewProc(op, <<>>, "", <<>>), Success(op)))
    /\ UNCHANGED <<cs, store, currentUser, isInitialized, initPc, now, nextId, ticks, hist>>

\* activities read; the entry reads this.currentUser.id; unshift, splice, set issued
LogRead(p) ==
    /\ proc[p].pc = "log_read"
    /\ LET r == proc[p]
           activities == store.userActivities
       IN  IF currentUser = Null
           THEN /\ Step(p, Finish(r, Failure(r.op, "Cannot read properties of null")))
                /\ nextId' = nextId + 1
           ELSE /\ Step(p, [r EXCEPT
                               !.pc = "log_write",
                               !.evicted = (Len(activities) >= ActivityCap),
                               !.list = UnshiftCapped(activities,
                                            Activity(nextId, currentUser.id, ActivityOf(r.op)))])
                /\ nextId' = nextId + 1
    /\ UNCHANGED <<cs, store, currentUser, isInitialized, initPc, now, ops, ticks, hist>>

\* activities written
LogWrite(p) ==
    /\ proc[p].pc = "log_write"
    /\ store' = [store EXCEPT
                    !.userActivities = SetValue(store.userActivities, proc[p].list)]
    /\ Step(p, Finish(proc[p], Success(proc[p].op)))
    /\ hist' = Answered(proc[p], Success(proc[p].op))
    /\ UNCHANGED <<cs, currentUser, isInitialized, initPc, now, nextId, ops, ticks>>

----------------------------------------------------------------------------
(* handleMessage's 'clear_all_data': chrome.storage.local.clear() *)

HandleClearAllData(p) ==
    /\ CanDispatch(p)
    /\ Dispatch(p, [NewProc("clear_all_data", <<>>, "", <<>>) EXCEPT !.pc = "cl_clear"])
    /\ UNCHANGED <<cs, store, currentUser, isInitialized, initPc, now, nextId, ticks, hist>>

ClearAllData(p) ==
    /\ proc[p].pc = "cl_clear"
    /\ store' = EmptyStore
    /\ proc' = [q \in Procs |-> IF q = p THEN IdleProc ELSE [proc[q] EXCEPT !.regId = 0]]
    /\ last' = Finish(proc[p], Response(TRUE, Null, ""))
    /\ hist' = [hist EXCEPT !.cleared = TRUE, !.sessionCleared = TRUE, !.reg = {}]
    /\ UNCHANGED <<cs, currentUser, isInitialized, initPc, now, nextId, ops, ticks>>

----------------------------------------------------------------------------
(* The remaining cases of handleMessage *)

\* data: 'pong'
Pong == [pong |-> TRUE]

HandlePing(p) ==
    /\ CanDispatch(p)
    /\ Dispatch(p, Finish(NewProc("ping", <<>>, "", <<>>), Response(TRUE, Pong, "")))
    /\ UNCHANGED <<cs, store, currentUser, isInitialized, initPc, now, nextId, ticks, hist>>

\* action names without a case: the one the content script sends, and a
\* message without an action field ("")
UnknownActions == {"process_summary", ""}

\* mutant: an action without a case is answered as handled
UnknownActionAccepted == Response(TRUE, Null, "")

\* default: return { success: false, error: 'Unknown action' }
UnknownAction == Response(FALSE, Null, "Unknown action")

HandleUnknown(p, action) ==
    /\ CanDispatch(p)
    /\ Dispatch(p, Finish(NewProc(action, <<>>, "", <<>>), UnknownAction))
    /\ UNCHANGED <<cs, store, currentUser, isInitialized, initPc, now, nextId, ticks, hist>>

\* 'sign_in', 'sign_up', 'save_leads' and 'log_activity' read a field of
\* `data` before they call the store: without a payload that throws
NoPayloadOps == {"sign_in", "sign_up", "save_leads", "log_activity"}

HandleNoPayload(p, op) ==
    /\ CanDispatch(p)
    /\ Dispatch(p, Finish([NewProc(op, <<>>, "", <<>>) EXCEPT !.hasData = FALSE],
                          Caught(TypeErrorMessage)))
    /\ UNCHANGED <<cs, store, currentUser, isInitialized, initPc, now, nextId, ticks, hist>>

ReadOps == {"get_summaries", "get_leads", "get_price_monitors", "get_user_history"}

SummaryLimit == 20
LeadLimit == 50
HistoryLimit == 20

\* list.slice(0, limit)
Slice(list, limit) == SubSeq(list, 1, IF Len(list) < limit THEN Len(list) ELSE limit)

\* the collection a query reads, and what it returns of it
ReadCollectionOf(op) ==
    CASE op = "get_summaries" -> "contentSummaries"
      [] op = "get_leads" -> "leads"
      [] op = "get_price_monitors" -> "priceMonitors"
      [] op = "get_user_history" -> "userActivities"

ReadResult(op, list) ==
    CASE op = "get_summaries" -> Slice(list, SummaryLimit)
      [] op = "get_leads" -> Slice(list, LeadLimit)
      [] op = "get_price_monitors" -> list
      [] op = "get_user_history" -> Slice(list, HistoryLimit)

\* data: an array
Items(list) == [items |-> list]

\* if (!this.currentUser) return []; else the collection is read
HandleRead(p, op) ==
    /\ CanDispatch(p)
    /\ IF currentUser = Null
       THEN Dispatch(p, Finish(NewProc(op, <<>>, "", <<>>), Response(TRUE, Items(<<>>), "")))
       ELSE Dispatch(p, [NewProc(op, <<>>, "", <<>>) EXCEPT !.pc = "rd_read"])
    /\ UNCHANGED <<cs, store, currentUser, isInitialized, initPc, now, nextId, ticks, hist>>

\* collection read; return { success: true, data }
ReadDone(p) ==
    /\ proc[p].pc = "rd_read"
    /\ LET op == proc[p].op
       IN  Step(p, Finish(proc[p],
                   Response(TRUE, Items(ReadResult(op, store[ReadCollectionOf(op)])), "")))
    /\ UNCHANGED <<cs, store, currentUser, isInitialized, initPc, now, nextId, ops, ticks, hist>>

\* 'get_user_stats': getCurrentUser, then getUserUsage
HandleGetUserStats(p) ==
    /\ CanDispatch(p)
    /\ LET r == NewProc("get_user_stats", <<>>, "", <<>>)
       IN  IF GetUserMemoized(currentUser)
           THEN Dispatch(p, [r EXCEPT !.pc = "us_summaries", !.user = currentUser])
           ELSE Dispatch(p, [r EXCEPT !.pc = "gu_read"])
    /\ UNCHANGED <<cs, store, currentUser, isInitialized, initPc, now, nextId, ticks, hist>>

\* the keys getUserUsage reads, one await each, and the position at each
UsageKeys == <<"contentSummaries", "leads", "priceMonitors", "userActivities">>
UsagePcs == <<"us_summaries", "us_leads", "us_monitors", "us_activities">>

\* priceMonitors.filter(p => p.alertsEnabled).length
ActiveMonitors(list) ==
    Cardinality({i \in 1..Len(list) :
                    "alertsEnabled" \in DOMAIN list[i] /\ list[i].alertsEnabled})

\* activities.filter(a => a.action === action).length
CountAction(list, action) ==
    Cardinality({i \in 1..Len(list) : list[i].action = action})

\* what getUserUsage keeps of the array it has read
UsageOf(key, list) ==
    CASE key = "contentSummaries" -> <<Len(list)>>
      [] key = "leads" -> <<Len(list)>>
      [] key = "priceMonitors" -> <<ActiveMonitors(list)>>
      [] key = "userActivities" -> <<CountAction(list, "automation_executed"),
                                     CountAction(list, "form_filled"),
                                     CountAction(list, "data_exported")>>

UsageStats(counts) ==
    [summariesUsed |-> counts[1], leadExtractionsUsed |-> counts[2],
     priceMonitorsActive |-> counts[3], automationsUsed |-> counts[4],
     formTemplatesUsed |-> counts[5], dataExportsUsed |-> counts[6]]

\* one array of getUserUsage read; after the last, { success: true, data: stats }
UsageRead(p) ==
    /\ \E k \in 1..Len(UsageKeys) :
           /\ proc[p].pc = UsagePcs[k]
           /\ LET r == proc[p]
                  counts == r.counts \o UsageOf(UsageKeys[k], store[UsageKeys[k]])
              IN  IF k = Len(UsageKeys)
                  THEN Step(p, Finish(r, Response(TRUE, UsageStats(counts), "")))
                  ELSE Step(p, [r EXCEPT !.pc = UsagePcs[k + 1], !.counts = counts])
    /\ UNCHANGED <<cs, store, currentUser, isInitialized, initPc, now, nextId, ops, ticks, hist>>

----------------------------------------------------------------------------

Next ==
    \/ Initialize
    \/ Tick
    \/ \E p \in Procs, email \in Emails, password \in Passwords, name \in Names :
           HandleSignUp(p, email, password, name)
    \/ \E p \in Procs : SignUpReadUsers(p)
    \/ \E p \in Procs : SignUpHash(p)
    \/ \E p \in Procs : SignUpWriteUsers(p)
    \/ \E p \in Procs : SignUpReadCreds(p)
    \/ \E p \in Procs : SignUpWriteCreds(p)
    \/ \E p \in Procs : SignUpWriteSession(p)
    \/ \E p \in Procs, email \in Emails, password \in Passwords :
           HandleSignIn(p, email, password)
    \/ \E p \in Procs : SignInReadUsers(p)
    \/ \E p \in Procs : SignInReadCreds(p)
    \/ \E p \in Procs : SignInHash(p)
    \/ \E p \in Procs : SignInWriteUsers(p)
    \/ \E p \in Procs : SignInWriteSession(p)
    \/ \E p \in Procs : HandleSignOut(p)
    \/ \E p \in Procs : SignOutRemove(p)
    \/ \E p \in Procs : HandleGetUser(p)
    \/ \E p \in Procs : GetUserTimer(p)
    \/ \E p \in Procs : GetUserRead(p)
    \/ \E p \in Procs : GetUserSignOut(p)
    \/ \E p \in Procs, op \in SaveOps : HandleSave(p, op)
    \/ \E p \in Procs : SaveRead(p)
    \/ \E p \in Procs : SaveWrite(p)
    \/ \E p \in Procs, op \in LogOps : HandleLog(p, op)
    \/ \E p \in Procs : LogRead(p)
    \/ \E p \in Procs : LogWrite(p)
    \/ \E p \in Procs : HandleClearAllData(p)
    \/ \E p \in Procs : ClearAllData(p)

Spec == Init /\ [][Next]_vars

----------------------------------------------------------------------------
(* Storage failures in the save and log handlers.  getStorageData catches   *)
(* a failed read and returns []; setStorageData catches a failed write and  *)
(* returns.                                                                 *)

\* chrome.storage.local.get rejects: the handler goes on with an empty array
SaveReadFails(p) ==
    /\ proc[p].pc = "sv_read"
    /\ LET op == proc[p].op
           recs == NewRecords(op, nextId)
       IN  /\ Step(p, [proc[p] EXCEPT
                          !.pc = "sv_write",
                          !.faulted = TRUE,
                          !.recs = recs,
                          !.list = Unshift(<<>>, recs)])
           /\ nextId' = nextId + PayloadSize(op)
    /\ UNCHANGED <<cs, store, currentUser, isInitialized, initPc, now, ops, ticks, hist>>

\* chrome.storage.local.set rejects: nothing is stored, the handler goes on
SaveWriteFails(p) ==
    /\ proc[p].pc = "sv_write"
    /\ LET r == [proc[p] EXCEPT !.faulted = TRUE]
       IN  IF LogAllowed(currentUser)
           THEN /\ Step(p, [r EXCEPT !.pc = "log_read", !.list = <<>>])
                /\ hist' = hist
           ELSE /\ Step(p, Finish(r, Success(r.op)))
                /\ hist' = Answered(r, Success(r.op))
    /\ UNCHANGED <<cs, store, currentUser, isInitialized, initPc, now, nextId, ops, ticks>>

LogReadFails(p) ==
    /\ proc[p].pc = "log_read"
    /\ LET r == [proc[p] EXCEPT !.faulted = TRUE]
       IN  IF currentUser = Null
           THEN Step(p, Finish(r, Failure(r.op, "Cannot read properties of null")))
           ELSE Step(p, [r EXCEPT
                            !.pc = "log_write",
                            !.list = UnshiftCapped(<<>>,
                                         Activity(nextId, currentUser.id, ActivityOf(r.op)))])
    /\ nextId' = nextId + 1
    /\ UNCHANGED <<cs, store, currentUser, isInitialized, initPc, now, ops, ticks, hist>>

LogWriteFails(p) ==
    /\ proc[p].pc = "log_write"
    /\ LET r == [proc[p] EXCEPT !.faulted = TRUE]
       IN  /\ Step(p, Finish(r, Success(r.op)))
           /\ hist' = Answered(r, Success(r.op))
    /\ UNCHANGED <<cs, store, currentUser, isInitialized, initPc, now, nextId, ops, ticks>>

NextFaults ==
    \/ Initialize
    \/ \E p \in Procs, op \in SaveOps : HandleSave(p, op)
    \/ \E p \in Procs : SaveRead(p)
    \/ \E p \in Procs : SaveWrite(p)
    \/ \E p \in Procs : HandleLog(p, "log_activity")
    \/ \E p \in Procs : LogRead(p)
    \/ \E p \in Procs : LogWrite(p)
    \/ \E p \in Procs : SaveReadFails(p)
    \/ \E p \in Procs : SaveWriteFails(p)
    \/ \E p \in Procs : LogReadFails(p)
    \/ \E p \in Procs : LogWriteFails(p)

SpecFaults == Init /\ [][NextFaults]_vars

----------------------------------------------------------------------------
(* The dispatcher: every case of handleMessage, with a payload and, where   *)
(* the case reads its payload, without one.                                *)

EmailBad == <<"a", "b">>

DispatchSignUps ==
    {<<EmailD, "abcdef", <<"A", "l">>>>,
     <<EmailAUpper, "abcdef", <<"A", "l">>>>,
     <<<<>>, "abcdef", <<"A", "l">>>>,
     <<EmailD, "", <<"A", "l">>>>,
     <<EmailD, "abcdef", <<>>>>,
     <<EmailBad, "abcdef", <<"A", "l">>>>,
     <<EmailD, "abcde", <<"A", "l">>>>,
     <<EmailD, "abcdef", <<"a", " ">>>>}

DispatchSignIns ==
    {<<EmailA, "abcdef">>,
     <<EmailA, "abcde">>,
     <<<<>>, "abcdef">>,
     <<EmailA, "">>,
     <<EmailBad, "abcdef">>}

NextDispatch ==
    \/ Initialize
    \/ \E p \in Procs : HandlePing(p)
    \/ \E p \in Procs : HandleGetUser(p)
    \/ \E p \in Procs : GetUserTimer(p)
    \/ \E p \in Procs : GetUserRead(p)
    \/ \E p \in Procs : GetUserSignOut(p)
    \/ \E p \in Procs, in \in DispatchSignIns : HandleSignIn(p, in[1], in[2])
    \/ \E p \in Procs : SignInReadUsers(p)
    \/ \E p \in Procs : SignInReadCreds(p)
    \/ \E p \in Procs : SignInHash(p)
    \/ \E p \in Procs : SignInWriteUsers(p)
    \/ \E p \in Procs : SignInWriteSession(p)
    \/ \E p \in Procs, in \in DispatchSignUps : HandleSignUp(p, in[1], in[2], in[3])
    \/ \E p \in Procs : SignUpReadUsers(p)
    \/ \E p \in Procs : SignUpHash(p)
    \/ \E p \in Procs : SignUpWriteUsers(p)
    \/ \E p \in Procs : SignUpReadCreds(p)
    \/ \E p \in Procs : SignUpWriteCreds(p)
    \/ \E p \in Procs : SignUpWriteSession(p)
    \/ \E p \in Procs : HandleSignOut(p)
    \/ \E p \in Procs : SignOutRemove(p)
    \/ \E p \in Procs, op \in SaveOps : HandleSave(p, op)
    \/ \E p \in Procs, op \in SaveOps : HandleSaveNoPayload(p, op)
    \/ \E p \in Procs : SaveRead(p)
    \/ \E p \in Procs : SaveWrite(p)
    \/ \E p \in Procs, op \in ReadOps : HandleRead(p, op)
    \/ \E p \in Procs : ReadDone(p)
    \/ \E p \in Procs : HandleGetUserStats(p)
    \/ \E p \in Procs : UsageRead(p)
    \/ \E p \in Procs : HandleLog(p, "log_activity")
    \/ \E p \in Procs : LogRead(p)
    \/ \E p \in Procs : LogWrite(p)
    \/ \E p \in Procs, op \in NoPayloadOps : HandleNoPayload(p, op)
    \/ \E p \in Procs : HandleClearAllData(p)
    \/ \E p \in Procs : ClearAllData(p)
    \/ \E p \in Procs, action \in UnknownActions : HandleUnknown(p, action)

SpecDispatch == Init /\ [][NextDispatch]_vars

----------------------------------------------------------------------------
(* Regular expressions of the content script.  A pattern is a sequence of   *)
(* items, each a character class with a least count and either one or any   *)
(* number of repetitions; matching is greedy with backtracking, as in       *)
(* String.prototype.match.                                                  *)

Digits == {"0", "1", "2", "3", "4", "5", "6", "7", "8", "9"}

Letters ==
    {"a", "b", "c", "d", "e", "f", "g", "h", "i", "j", "k", "l", "m",
     "n", "o", "p", "q", "r", "s", "t", "u", "v", "w", "x", "y", "z",
     "A", "B", "C", "D", "E", "F", "G", "H", "I", "J", "K", "L", "M",
     "N", "O", "P", "Q", "R", "S", "T", "U", "V", "W", "X", "Y", "Z"}

One(cls) == [cls |-> cls, min |-> 1, many |-> FALSE]
Opt(cls) == [cls |-> cls, min |-> 0, many |-> FALSE]
Plus(cls) == [cls |-> cls, min |-> 1, many |-> TRUE]
AtLeast(cls, n) == [cls |-> cls, min |-> n, many |-> TRUE]

\* the number of characters of s from position i on that item e can take
Run(e, s, i) ==
    LET most == IF e.many THEN Len(s) - i + 1
                ELSE IF i <= Len(s) THEN 1 ELSE 0
    IN  CHOOSE n \in 0..most :
            /\ \A j \in i..(i + n - 1) : s[j] \in e.cls
            /\ n = most \/ s[i + n] \notin e.cls

\* the position after the match of pat[k..] that starts at position i of s,
\* 0 when there is none: each item first takes all it can, then gives back
RECURSIVE MatchFrom(_, _, _, _)
RECURSIVE MatchTaking(_, _, _, _, _)
MatchFrom(pat, k, s, i) ==
    IF k > Len(pat) THEN i
    ELSE LET n == Run(pat[k], s, i)
         IN  IF n < pat[k].min THEN 0 ELSE MatchTaking(pat, k, s, i, n)

\* item k takes n characters; when the rest does not match, one fewer
MatchTaking(pat, k, s, i, n) ==
    LET end == MatchFrom(pat, k + 1, s, i + n)
    IN  IF end # 0 THEN end
        ELSE IF n > pat[k].min THEN MatchTaking(pat, k, s, i, n - 1)
        ELSE 0

\* the first of the alternative patterns that matches at position i
RECURSIVE MatchAlternatives(_, _, _, _)
MatchAlternatives(alts, a, s, i) ==
    IF a > Len(alts) THEN 0
    ELSE LET end == MatchFrom(alts[a], 1, s, i)
         IN  IF end # 0 THEN end ELSE MatchAlternatives(alts, a + 1, s, i)

\* s.match(/.../g) || []: the matches from left to right, without overlap
RECURSIVE MatchAll(_, _, _)
MatchAll(alts, s, i) ==
    IF i > Len(s) THEN <<>>
    ELSE LET end == MatchAlternatives(alts, 1, s, i)
         IN  IF end > i
             THEN <<SubSeq(s, i, end - 1)>> \o MatchAll(alts, s, end)
             ELSE MatchAll(alts, s, i + 1)

\* /[a-zA-Z0-9._%+-]+@[a-zA-Z0-9.-]+\.[a-zA-Z]{2,}/g
emailRegex ==
    <<<<Plus(Letters \cup Digits \cup {".", "_", "%", "+", "-"}),
        One({"@"}),
        Plus(Letters \cup Digits \cup {".", "-"}),
        One({"."}),
        AtLeast(Letters, 2)>>>>

Separators == {"-", ".", " "}

PhoneNumber ==
    <<Opt({"("}), One(Digits), One(Digits), One(Digits), Opt({")"}), Opt(Separators),
      One(Digits), One(Digits), One(Digits), Opt(Separators),
      One(Digits), One(Digits), One(Digits), One(Digits)>>

\* /(?:\+?1[-. ]?)?\(?([0-9]{3})\)?[-. ]?([0-9]{3})[-. ]?([0-9]{4})/g
phoneRegex ==
    <<<<Opt({"+"}), One({"1"}), Opt(Separators)>> \o PhoneNumber, PhoneNumber>>

\* /[\d,.]+(\d{2})/g
priceRegex == <<<<Plus(Digits \cup {",", "."}), One(Digits), One(Digits)>>>>

\* s.replace(/,/g, '')
RemoveCommas(s) == SelectSeq(s, LAMBDA c : c # ",")

\* NaN, and a number written as its digits before and after the point
NaN == [nan |-> TRUE]
Number(int, frac) == [nan |-> FALSE, int |-> int, frac |-> frac]
Zero == Number(<<"0">>, <<>>)

\* parseFloat on a string without sign, blank or exponent: the longest prefix
\* that is a decimal literal, NaN when no prefix is one
parseFloat(s) ==
    LET digits == Plus(Digits)
        n == Run(digits, s, 1)
        point == n + 1 <= Len(s) /\ s[n + 1] = "."
        m == IF point THEN Run(digits, s, n + 2) ELSE 0
    IN  IF n = 0 /\ m = 0 THEN NaN
        ELSE Number(SubSeq(s, 1, n), SubSeq(s, n + 2, n + 1 + m))

\* mutant: every match is kept
NotDeduplicated(matches) == matches

\* [...new Set(matches)]: each string once, in the order of first occurrence
RECURSIVE Unique(_)
Unique(matches) ==
    IF matches = <<>> THEN <<>>
    ELSE LET rest == Unique(SubSeq(matches, 1, Len(matches) - 1))
             x == matches[Len(matches)]
         IN  IF x \in Range(rest) THEN rest ELSE Append(rest, x)

----------------------------------------------------------------------------
(* The content script: handleMessage and the functions it calls *)

\* the functions' catch: { success: false, error: error.message }
ContentFailure(error) == Response(FALSE, Null, error)

extractLeads(page) ==
    LET uniqueEmails == Unique(MatchAll(emailRegex, page.body, 1))
        uniquePhones == Unique(MatchAll(phoneRegex, page.body, 1))
        leads ==
            [i \in 1..Len(uniqueEmails) |->
                [email |-> uniqueEmails[i], source |-> page.url, verified |-> FALSE]]
            \o
            [i \in 1..Len(uniquePhones) |->
                [phone |-> uniquePhones[i], source |-> page.url, verified |-> FALSE]]
    IN  Response(TRUE, [leads |-> leads, count |-> Len(leads), source |-> page.url], "")

\* the selectors monitorPrice probes, in order; "" stands for no selector given
priceSelectors(selector) ==
    SelectSeq(<<selector, ".price", ".price-current", ".current-price", "[data-price]",
                ".product-price", ".sale-price", ".offer-price">>,
              LAMBDA sel : sel # "")

\* a selector that document.querySelector rejects with a SyntaxError
InvalidSelector == "!"

\* document.querySelector(sel): the first element in document order, or null
querySelector(page, sel) ==
    IF \E i \in 1..Len(page.elements) : page.elements[i].sel = sel
    THEN page.elements[CHOOSE i \in 1..Len(page.elements) :
                          /\ page.elements[i].sel = sel
                          /\ \A j \in 1..(i - 1) : page.elements[j].sel # sel]
    ELSE Null

\* the element of the first selector that matches one, or null
RECURSIVE FirstElement(_, _, _)
FirstElement(page, selectors, k) ==
    IF k > Len(selectors) THEN Null
    ELSE LET element == querySelector(page, selectors[k])
         IN  IF element # Null THEN element ELSE FirstElement(page, selectors, k + 1)

\* priceMatch ? parseFloat(priceMatch[0].replace(/,/g, '')) : 0
PriceOf(priceText) ==
    LET priceMatch == MatchAll(priceRegex, priceText, 1)
    IN  IF priceMatch # <<>> THEN parseFloat(RemoveCommas(priceMatch[1])) ELSE Zero

monitorPrice(page, selector) ==
    LET selectors == priceSelectors(selector)
        priceElement == FirstElement(page, selectors, 1)
    IN  IF selector = InvalidSelector
        THEN ContentFailure("Failed to execute 'querySelector' on 'Document'")
        ELSE IF priceElement = Null \/ priceElement.text = <<>>
        THEN ContentFailure("No price found on this page")
        ELSE Response(TRUE,
                      [url |-> page.url, productName |-> page.title,
                       currentPrice |-> PriceOf(priceElement.text), currency |-> "USD",
                       selector |-> priceElement.sel],
                      "")

\* the content script answers `resp` to the message `action`
ContentAnswer(action, resp, ui) ==
    [cs EXCEPT !.op = action, !.selector = "", !.resp = resp, !.ui = ui]

ContentExtractLeads ==
    /\ cs' = ContentAnswer("extract_leads", extractLeads(cs.page), cs.ui)
    /\ UNCHANGED bgVars

ContentMonitorPrice(selector) ==
    /\ cs' = [ContentAnswer("monitor_price", monitorPrice(cs.page, selector), cs.ui)
                 EXCEPT !.selector = selector]
    /\ UNCHANGED bgVars

\* showSmartyQuickActions(); return { success: true }
ContentShowQuickActions ==
    /\ cs' = ContentAnswer("show_quick_actions", Response(TRUE, Null, ""), TRUE)
    /\ UNCHANGED bgVars

\* hideSmartyUI(); return { success: true }
ContentHideUI ==
    /\ cs' = ContentAnswer("hide_ui", Response(TRUE, Null, ""), FALSE)
    /\ UNCHANGED bgVars

\* action names the content script has no case for: one of the background's,
\* and a message without an action field ("")
ContentUnknownActions == {"get_user", ""}

\* default: return { success: false, error: 'Unknown action' }
ContentUnknown(action) ==
    /\ cs' = ContentAnswer(action, UnknownAction, cs.ui)
    /\ UNCHANGED bgVars

----------------------------------------------------------------------------
(* Pages *)

Space == " "

RECURSIVE Join(_)
Join(words) ==
    IF words = <<>> THEN <<>>
    ELSE IF Len(words) = 1 THEN words[1]
    ELSE words[1] \o <<Space>> \o Join(Tail(words))

Words ==
    {<<"a", "@", "b", ".", "c", "o">>,
     <<"A", "@", "b", ".", "c", "o">>,
     <<"a", "@", "b", ".", "c">>,
     <<"5", "5", "5", "-", "1", "2", "3", "-", "4", "5", "6", "7">>,
     <<"5", "5", "5", "1", "2", "3", "4", "5", "6", "7">>,
     <<"1">>}

SeqsUpTo(S, n) == UNION {[1..k -> S] : k \in 0..n}

LeadPages ==
    {Page("https://shop.test/contact", "Contact", Join(words), <<>>) :
        words \in SeqsUpTo(Words, MaxWords)}

ElementSelectors == {".price", ".offer-price", ".custom", ".other"}

ElementTexts ==
    {<<>>,
     <<"$", "1", "2", ".", "5", "0">>,
     <<"1", ",", "2", "3", "4", ".", "0", "0">>,
     <<"c", "a", "l", "l">>,
     <<".", ".", "1", "2">>,
     <<"$", "5">>}

Elements == [sel : ElementSelectors, text : ElementTexts]

PricePages ==
    {Page("https://shop.test/item", "Item", <<>>, elements) :
        elements \in SeqsUpTo(Elements, MaxElements)}

Pages == LeadPages \cup PricePages

Selectors == {"", ".custom", InvalidSelector}

InitContent == InitBackground /\ cs \in {ContentScript(page) : page \in Pages}

\* the content script of one tab, and the background's answer to the actions
\* it has no case for
NextContent ==
    \/ ContentExtractLeads
    \/ \E selector \in Selectors : ContentMonitorPrice(selector)
    \/ ContentShowQuickActions
    \/ ContentHideUI
    \/ \E action \in ContentUnknownActions : ContentUnknown(action)
    \/ \E p \in Procs, action \in UnknownActions : HandleUnknown(p, action)

SpecContent == InitContent /\ [][NextContent]_vars

----------------------------------------------------------------------------
(* The content script: fillForm *)

\* a form control of the document, its name, id and placeholder as sequences
\* of characters
Control(tag, name, id, placeholder, value) ==
    [tag |-> tag, name |-> name, id |-> id, placeholder |-> placeholder, value |-> value]

\* a document with form controls, in document order
FormPage(controls) ==
    [url |-> "https://shop.test/form", title |-> "Form", body |-> <<>>,
     elements |-> <<>>, controls |-> controls]

\* the content script loaded into a document with form controls; `formData`
\* is data.formData of the message handled last
FormContentScript(page) ==
    [page |-> page, op |-> "none", selector |-> "", formData |-> Null,
     resp |-> Null, ui |-> FALSE]

\* the five selectors built from a key, in the order they are tried:
\* [attr="key"] compares the whole attribute, [attr*="key"] looks for a substring
formSelectors ==
    <<[tag |-> "input", attr |-> "name", substring |-> FALSE],
      [tag |-> "input", attr |-> "id", substring |-> FALSE],
      [tag |-> "input", attr |-> "placeholder", substring |-> TRUE],
      [tag |-> "textarea", attr |-> "name", substring |-> FALSE],
      [tag |-> "select", attr |-> "name", substring |-> FALSE]>>

\* characters that end or escape the quoted string the key is pasted into
Unescaped == {"\"", "\\"}

\* the selector text built from `key` is one that querySelector parses
ValidSelector(key) == \A i \in 1..Len(key) : key[i] \notin Unescaped

\* `key` occurs in `text`; an empty key occurs nowhere ([attr*=""] matches nothing)
Contains(text, key) ==
    /\ key # <<>>
    /\ \E i \in 1..(Len(text) - Len(key) + 1) : SubSeq(text, i, i + Len(key) - 1) = key

AttributeOf(control, attr) ==
    IF attr = "name" THEN control.name
    ELSE IF attr = "id" THEN control.id
    ELSE control.placeholder

MatchesSelector(control, sel, key) ==
    /\ control.tag = sel.tag
    /\ IF sel.substring THEN Contains(AttributeOf(control, sel.attr), key)
       ELSE AttributeOf(control, sel.attr) = key

\* document.querySelector(selector): the position of the first control in
\* document order that matches, 0 for null
QueryControl(controls, sel, key) ==
    IF \E i \in 1..Len(controls) : MatchesSelector(controls[i], sel, key)
    THEN CHOOSE i \in 1..Len(controls) :
             /\ MatchesSelector(controls[i], sel, key)
             /\ \A j \in 1..(i - 1) : ~MatchesSelector(controls[j], sel, key)
    ELSE 0

\* the for loop over the selectors of one key: the first element found, 0 for none
RECURSIVE FirstControl(_, _, _)
FirstControl(controls, key, k) ==
    IF k > Len(formSelectors) THEN 0
    ELSE LET element == QueryControl(controls, formSelectors[k], key)
         IN  IF element # 0 THEN element ELSE FirstControl(controls, key, k + 1)

\* the forEach over Object.entries(formData) from entry i on: the controls
\* and the count it ends with, and whether querySelector threw on the way
RECURSIVE FillEntries(_, _, _, _)
FillEntries(controls, formData, i, fieldsFound) ==
    IF i > Len(formData)
    THEN [controls |-> controls, fieldsFound |-> fieldsFound, threw |-> FALSE]
    ELSE IF ~ValidSelector(formData[i].key)
    THEN [controls |-> controls, fieldsFound |-> fieldsFound, threw |-> TRUE]
    ELSE LET element == FirstControl(controls, formData[i].key, 1)
         IN  IF element = 0 THEN FillEntries(controls, formData, i + 1, fieldsFound)
             ELSE FillEntries([controls EXCEPT ![element].value = formData[i].value],
                              formData, i + 1, fieldsFound + 1)

\* a field map: Object.entries(formData), in insertion order
FieldMap(entries) == [entries |-> entries]

fillForm(controls, formData) ==
    IF formData = Null THEN ContentFailure("No form data provided")
    ELSE LET filled == FillEntries(controls, formData.entries, 1, 0)
         IN  IF filled.threw
             THEN ContentFailure("Failed to execute 'querySelector' on 'Document'")
             ELSE Response(TRUE,
                           [fieldsFound |-> filled.fieldsFound,
                            totalFields |-> Len(formData.entries)],
                           "")

\* case 'fill_form': return fillForm(data?.formData)
ContentFillForm(formData) ==
    /\ cs' = [ContentAnswer("fill_form", fillForm(cs.page.controls, formData), cs.ui)
                 EXCEPT !.formData = formData,
                        !.page.controls =
                            IF formData = Null THEN @
                            ELSE FillEntries(@, formData.entries, 1, 0).controls]
    /\ UNCHANGED bgVars

----------------------------------------------------------------------------
(* Documents with form controls, and field maps *)

KeyA == <<"a">>
KeyB == <<"b">>
KeyQuote == <<"\"">>
Keys == {KeyA, KeyB, KeyQuote}

Values == {"v", "w"}

Controls ==
    {Control("input", name, id, placeholder, "") :
        name \in {<<>>, KeyA, KeyB}, id \in {<<>>, KeyA}, placeholder \in {<<>>, <<"x", "a">>}}
    \cup {Control("textarea", name, <<>>, <<>>, "") : name \in {KeyA, KeyB}}
    \cup {Control("select", KeyA, <<>>, <<>>, "")}

FormPages == {FormPage(controls) : controls \in SeqsUpTo(Controls, MaxControls)}

\* field maps: up to MaxKeys entries with different keys, in insertion order
FieldMaps ==
    {FieldMap(entries) :
        entries \in {e \in SeqsUpTo([key : Keys, value : Values], MaxKeys) :
                        \A i, j \in 1..Len(e) : e[i].key = e[j].key => i = j}}

InitForm ==
    /\ InitBackground
    /\ store = EmptyStore
    /\ cs \in {FormContentScript(page) : page \in FormPages}

\* fill_form messages to the content script of one tab, with a field map and
\* without a payload
NextForm == \E formData \in FieldMaps \cup {Null} : ContentFillForm(formData)

SpecForm == InitForm /\ [][NextForm]_vars

----------------------------------------------------------------------------
(* The content script class SmartyContentScript: page analysis, the menu of *)
(* floating actions, and re-analysis when the document changes              *)

\* String.prototype.includes
Includes(text, key) == key = <<>> \/ Contains(text, key)

IncludesAny(text, keys) == \E key \in keys : Includes(text, key)

\* an element of the document: its tag and its class ("" for none)
Element(tag, class) == [tag |-> tag, class |-> class]

\* a document as the analysis reads it: location.href, document.title,
\* body.textContent and the elements of the body
AnalysedPage(url, title, content, elements) ==
    [url |-> url, title |-> title, content |-> content, elements |-> elements]

\* document.querySelector('.class') !== null
HasClass(page, class) == \E el \in page.elements : el.class = class

\* document.querySelectorAll('tag').length > 0
HasTag(page, tag) == \E el \in page.elements : el.tag = tag

isSocialDomain(url) ==
    IncludesAny(url, {<<"l", "i", "n", "k", "e", "d", "i", "n", ".", "c", "o", "m">>, <<"t", "w", "i", "t", "t", "e", "r", ".", "c", "o", "m">>, <<"f", "a", "c", "e", "b", "o", "o", "k", ".", "c", "o", "m">>})

isEcommerceHint(url, content) ==
    \/ IncludesAny(url, {<<"a", "m", "a", "z", "o", "n", ".", "c", "o", "m">>, <<"e", "b", "a", "y", ".", "c", "o", "m">>})
    \/ Includes(content, <<"a", "d", "d", " ", "t", "o", " ", "c", "a", "r", "t">>)

isJobHint(url, title) ==
    \/ IncludesAny(url, {<<"i", "n", "d", "e", "e", "d", ".", "c", "o", "m">>, <<"l", "i", "n", "k", "e", "d", "i", "n", ".", "c", "o", "m", "/", "j", "o", "b", "s">>})
    \/ Includes(title, <<"j", "o", "b">>)

\* querySelectorAll('article, .article, .post, .blog-post').length > 0
hasArticle(page) ==
    \/ HasTag(page, "article")
    \/ \E class \in {<<"a", "r", "t", "i", "c", "l", "e">>, <<"p", "o", "s", "t">>, <<"b", "l", "o", "g", "-", "p", "o", "s", "t">>} : HasClass(page, class)

\* mutant: the job-board test stands before the social-media test
detectPageTypeJobFirst(page) ==
    IF isJobHint(ToLowerCase(page.url), ToLowerCase(page.title)) THEN "job-board"
    ELSE IF isSocialDomain(ToLowerCase(page.url)) THEN "social-media"
    ELSE IF isEcommerceHint(ToLowerCase(page.url), ToLowerCase(page.content)) THEN "ecommerce"
    ELSE IF hasArticle(page) THEN "article"
    ELSE IF HasTag(page, "form") THEN "form-page"
    ELSE "general"

detectPageType(page) ==
    LET url == ToLowerCase(page.url)
        title == ToLowerCase(page.title)
        content == ToLowerCase(page.content)
    IN  IF isSocialDomain(url) THEN "social-media"
        ELSE IF isEcommerceHint(url, content) THEN "ecommerce"
        ELSE IF isJobHint(url, title) THEN "job-board"
        ELSE IF hasArticle(page) THEN "article"
        ELSE IF HasTag(page, "form") THEN "form-page"
        ELSE "general"

\* document.querySelector('[class*="key"]') !== null
ClassIncludes(page, key) == \E el \in page.elements : Contains(el.class, key)

\* the elements of the model carry no id, and its texts none of the currency
\* signs other than $
detectPricingElements(page) ==
    \/ \E class \in {<<"p", "r", "i", "c", "e">>, <<"c", "o", "s", "t">>, <<"a", "m", "o", "u", "n", "t">>, <<"c", "u", "r", "r", "e", "n", "c", "y">>} : HasClass(page, class)
    \/ ClassIncludes(page, <<"p", "r", "i", "c", "e">>)
    \/ IncludesAny(page.content, {<<"$">>, <<"U", "S", "D">>, <<"E", "U", "R">>, <<"G", "B", "P">>})

\* every end of a match of the pattern's items k.. that starts at position i
RECURSIVE Ends(_, _, _, _)
Ends(pat, k, s, i) ==
    IF k > Len(pat) THEN {i}
    ELSE UNION {Ends(pat, k + 1, s, i + n) : n \in pat[k].min..Run(pat[k], s, i)}

WordChars == Letters \cup Digits \cup {"_"}

\* \b: exactly one of the characters before and at position i is a word character
WordBoundary(s, i) ==
    (i > 1 /\ s[i - 1] \in WordChars) # (i <= Len(s) /\ s[i] \in WordChars)

\* /\b[A-Za-z0-9._%+-]+@[A-Za-z0-9.-]+\.[A-Z|a-z]{2,}\b/.test(content)
contactEmailTest(content) ==
    LET pattern == <<Plus(Letters \cup Digits \cup {".", "_", "%", "+", "-"}), One({"@"}),
                     Plus(Letters \cup Digits \cup {".", "-"}), One({"."}),
                     AtLeast(Letters \cup {"|"}, 2)>>
    IN  \E i \in 1..Len(content) :
            /\ WordBoundary(content, i)
            /\ \E j \in Ends(pattern, 1, content, i) : WordBoundary(content, j)

\* /(\+\d{1,3}[- ]?)?\d{10}|\(\d{3}\)\s*\d{3}-\d{4}/.test(content); a match with
\* the optional prefix holds one without it
contactPhoneTest(content) ==
    LET d == One(Digits)
        tenDigits == <<d, d, d, d, d, d, d, d, d, d>>
        bracketed == <<One({"("}), d, d, d, One({")"}),
                       [cls |-> Whitespace, min |-> 0, many |-> TRUE],
                       d, d, d, One({"-"}), d, d, d, d>>
    IN  \E i \in 1..Len(content) :
            Ends(tenDigits, 1, content, i) \cup Ends(bracketed, 1, content, i) # {}

detectContactInfo(page) == contactEmailTest(page.content) \/ contactPhoneTest(page.content)

isEcommercePage(page) ==
    \/ IncludesAny(ToLowerCase(page.content),
                   {<<"a", "d", "d", " ", "t", "o", " ", "c", "a", "r", "t">>, <<"b", "u", "y", " ", "n", "o", "w">>, <<"c", "h", "e", "c", "k", "o", "u", "t">>, <<"s", "h", "o", "p", "p", "i", "n", "g", " ", "c", "a", "r", "t">>, <<"p", "r", "o", "d", "u", "c", "t">>})
    \/ \E class \in {<<"a", "d", "d", "-", "t", "o", "-", "c", "a", "r", "t">>, <<"b", "u", "y", "-", "b", "u", "t", "t", "o", "n">>, <<"c", "h", "e", "c", "k", "o", "u", "t", "-", "b", "u", "t", "t", "o", "n">>, <<"p", "r", "o", "d", "u", "c", "t", "-", "p", "r", "i", "c", "e">>} :
          HasClass(page, class)

isSocialMediaPage(page) ==
    IncludesAny(page.url, {<<"l", "i", "n", "k", "e", "d", "i", "n", ".", "c", "o", "m">>, <<"t", "w", "i", "t", "t", "e", "r", ".", "c", "o", "m">>, <<"f", "a", "c", "e", "b", "o", "o", "k", ".", "c", "o", "m">>, <<"i", "n", "s", "t", "a", "g", "r", "a", "m", ".", "c", "o", "m">>, <<"t", "i", "k", "t", "o", "k", ".", "c", "o", "m">>})

isJobBoardPage(page) ==
    \/ IncludesAny(page.url, {<<"i", "n", "d", "e", "e", "d", ".", "c", "o", "m">>, <<"g", "l", "a", "s", "s", "d", "o", "o", "r", ".", "c", "o", "m">>, <<"m", "o", "n", "s", "t", "e", "r", ".", "c", "o", "m">>, <<"z", "i", "p", "r", "e", "c", "r", "u", "i", "t", "e", "r", ".", "c", "o", "m">>})
    \/ IncludesAny(ToLowerCase(page.content),
                   {<<"j", "o", "b">>, <<"c", "a", "r", "e", "e", "r">>, <<"p", "o", "s", "i", "t", "i", "o", "n">>, <<"h", "i", "r", "i", "n", "g">>, <<"e", "m", "p", "l", "o", "y", "m", "e", "n", "t">>})

\* the pageContext object that analyzePageContext builds
PageContext(page) ==
    [url |-> page.url, title |-> page.title,
     pageType |-> detectPageType(page),
     hasForm |-> HasTag(page, "form"),
     hasPricing |-> detectPricingElements(page),
     hasContactInfo |-> detectContactInfo(page),
     isEcommerce |-> isEcommercePage(page),
     isSocialMedia |-> isSocialMediaPage(page),
     isJobBoard |-> isJobBoardPage(page)]

FabOptions == {"summarize", "extract", "autofill", "leads", "monitor"}

\* the content script class before its constructor ran: `context` is the
\* pageContext of the last analysis and `analysed` the document it read,
\* `menu` the style.display of the options
\* of #smarty-fab-menu (Null while the menu is not in the document), `timers`
\* the pending setTimeout callbacks, `sent` the action of each message sent
\* to the background ("" for a message without an action field)
SmartyContentScript(page) ==
    [page |-> page, initialized |-> FALSE, context |-> Null, analysed |-> Null,
     menu |-> Null, timers |-> 0, sent |-> {}]

shouldShowAction(action, context) ==
    IF action = "summarize"
    THEN context.pageType = "article" \/ IncludesAny(context.url, {<<"n", "e", "w", "s">>, <<"b", "l", "o", "g">>})
    ELSE IF action = "extract" THEN TRUE
    ELSE IF action = "autofill" THEN context.hasForm
    ELSE IF action = "leads" THEN context.hasContactInfo \/ context.isSocialMedia
    ELSE IF action = "monitor" THEN context.isEcommerce /\ context.hasPricing
    ELSE FALSE

\* if (!menu) return; every option gets display 'block' or 'none'
updateFloatingActions(menu, context) ==
    IF menu = Null THEN menu
    ELSE [display |-> [action \in DOMAIN menu.display |->
                          IF shouldShowAction(action, context) THEN "block" ELSE "none"]]

\* analyzePageContext: build the context, send it to the background in a
\* message with a type and no action, update the floating actions
analyzePageContext(script) ==
    [script EXCEPT !.context = PageContext(script.page),
                   !.analysed = script.page,
                   !.sent = @ \cup {""},
                   !.menu = updateFloatingActions(@, PageContext(script.page))]

\* injectFloatingActionButton: the menu with its five options, no inline display
InjectedMenu == [display |-> [action \in FabOptions |-> ""]]

\* new SmartyContentScript(): analyse the page, observe the body, then inject
\* the button; the observer sees the button added, which neither is nor
\* holds a form or a .price element
ScriptInitialize ==
    /\ ~cs.initialized
    /\ cs' = [analyzePageContext(cs) EXCEPT !.menu = InjectedMenu, !.initialized = TRUE]
    /\ UNCHANGED bgVars

\* a node added to the document: its root element (Null for a text node) and
\* the elements below the root
Node(root, inside) == [root |-> root, inside |-> inside]

\* el.tagName === 'FORM' || el.querySelector('form') ||
\* el.classList.contains('price') || el.querySelector('.price')
ImportantElement(node) ==
    \/ node.root.tag = "form"
    \/ \E el \in node.inside : el.tag = "form"
    \/ node.root.class = <<"p", "r", "i", "c", "e">>
    \/ \E el \in node.inside : el.class = <<"p", "r", "i", "c", "e">>

\* the observer's callback: some childList record adds an element node that
\* is or holds a form or a .price element
shouldReanalyze(mutations) ==
    \E m \in 1..Len(mutations) :
        /\ mutations[m].type = "childList"
        /\ \E n \in 1..Len(mutations[m].addedNodes) :
              /\ mutations[m].addedNodes[n].root # Null
              /\ ImportantElement(mutations[m].addedNodes[n])

\* the elements that the records of a batch added
AddedElements(mutations) ==
    UNION {UNION {(IF mutations[m].addedNodes[n].root = Null THEN {}
                   ELSE {mutations[m].addedNodes[n].root})
                  \cup mutations[m].addedNodes[n].inside :
                     n \in 1..Len(mutations[m].addedNodes)} :
              m \in 1..Len(mutations)}

\* the page changes the document and the observer is called with the batch
\* of records: setTimeout(() => this.analyzePageContext(), 1000)
DocumentChanges(mutations) ==
    /\ cs.initialized
    /\ shouldReanalyze(mutations) => cs.timers < MaxTimers
    /\ cs' = [cs EXCEPT !.page.elements = @ \cup AddedElements(mutations),
                        !.timers = IF shouldReanalyze(mutations) THEN @ + 1 ELSE @]
    /\ UNCHANGED bgVars

\* a timer set by the observer runs
ReanalysisTimer ==
    /\ cs.timers > 0
    /\ cs' = [analyzePageContext(cs) EXCEPT !.timers = @ - 1]
    /\ UNCHANGED bgVars

----------------------------------------------------------------------------
(* Documents for the analysis, and batches of mutation records *)

AnalysedUrls ==
    {<<"h", "t", "t", "p", "s", ":", "/", "/", "l", "i", "n", "k", "e", "d", "i", "n", ".", "c", "o", "m", "/", "j", "o", "b", "s">>,
     <<"h", "t", "t", "p", "s", ":", "/", "/", "i", "n", "d", "e", "e", "d", ".", "c", "o", "m", "/", "n", "e", "w", "s">>,
     <<"h", "t", "t", "p", "s", ":", "/", "/", "a", ".", "t", "e", "s", "t", "/", "A", "m", "a", "z", "o", "n", ".", "c", "o", "m">>,
     <<"h", "t", "t", "p", "s", ":", "/", "/", "a", ".", "t", "e", "s", "t", "/">>}

AnalysedTitles == {<<>>, <<"j", "o", "b", "s">>}

AnalysedContents ==
    {<<>>,
     <<"A", "d", "d", " ", "t", "o", " ", "c", "a", "r", "t", " ", "$", "5">>,
     <<"h", "i", "r", "i", "n", "g", " ", "a", "@", "b", ".", "c", "o">>,
     <<"c", "a", "l", "l", " ", "5", "5", "5", "1", "2", "3", "4", "5", "6", "7">>,
     <<"p", "r", "o", "d", "u", "c", "t">>}

AnalysedElements ==
    {Element("article", <<>>), Element("div", <<"p", "o", "s", "t">>), Element("form", <<>>),
     Element("span", <<"p", "r", "i", "c", "e">>), Element("div", <<"p", "r", "o", "d", "u", "c", "t", "-", "p", "r", "i", "c", "e">>)}

AnalysedPages ==
    {AnalysedPage(url, title, content, elements) :
        url \in AnalysedUrls, title \in AnalysedTitles, content \in AnalysedContents,
        elements \in {E \in SUBSET AnalysedElements : Cardinality(E) <= MaxElements}}

ChildList(addedNodes) == [type |-> "childList", addedNodes |-> addedNodes]

\* batches of mutation records: a form added, a .price element added inside a
\* div, a text node added, a .product-price element added, an attribute
\* changed, and a text node and a .price element added in two records
Batches ==
    {<<ChildList(<<Node(Element("form", <<>>), {})>>)>>,
     <<ChildList(<<Node(Element("div", <<>>), {Element("span", <<"p", "r", "i", "c", "e">>)})>>)>>,
     <<ChildList(<<Node(Null, {})>>)>>,
     <<ChildList(<<Node(Element("div", <<"p", "r", "o", "d", "u", "c", "t", "-", "p", "r", "i", "c", "e">>), {})>>)>>,
     <<[type |-> "attributes", addedNodes |-> <<>>]>>,
     <<ChildList(<<Node(Null, {})>>), ChildList(<<Node(Element("span", <<"p", "r", "i", "c", "e">>), {})>>)>>}

InitPage ==
    /\ InitBackground
    /\ store = EmptyStore
    /\ cs \in {SmartyContentScript(page) : page \in AnalysedPages}

NextPage ==
    \/ ScriptInitialize
    \/ \E mutations \in Batches : DocumentChanges(mutations)
    \/ ReanalysisTimer

SpecPage == InitPage /\ [][NextPage]_vars

----------------------------------------------------------------------------
(* The requests the clients send to the background: the value of the        *)
(* `action` field of every chrome.runtime.sendMessage call, "" for a        *)
(* message that has no action field.                                        *)

\* side panel: sendMessage(action, data) in initializeSidePanel, loadUserData,
\* handleAuth, handleSignOut, summarizeCurrentPage and extractLeads
PanelActions ==
    {"get_user", "get_summaries", "get_leads", "sign_up", "sign_in", "sign_out",
     "save_summary", "save_leads"}

\* content script functions: summarizePage and the quick-action buttons
ContentActions == {"process_summary", "save_leads", "save_price_monitor"}

\* class SmartyContentScript: analyzePageContext and handleDataExtraction send
\* { type, ... } without an action; the other floating actions send saves
ScriptActions == {"", "save_summary", "save_leads", "save_price_monitor"}

ClientActions == PanelActions \cup ContentActions \cup ScriptActions

----------------------------------------------------------------------------
(* The side panel: the sendMessage helper, initializeSidePanel and          *)
(* loadUserData.  Under SpecPanel `cs` is the panel: its React state (user, *)
(* summaries, leads, stats, loading, error), the position of                *)
(* initializeSidePanel, the requests that await their response, the         *)
(* argument of loadUserData and the get_user response it received.          *)

Stats(summaries, leads) ==
    [totalSummaries |-> Len(summaries), totalLeads |-> Len(leads),
     totalActions |-> Len(summaries) + Len(leads)]

SidePanel ==
    [pc |-> "mounted", user |-> Null, summaries |-> <<>>, leads |-> <<>>,
     stats |-> Stats(<<>>, <<>>), loading |-> TRUE, error |-> "",
     pending |-> {}, arg |-> Null, results |-> [get_summaries |-> Null, get_leads |-> Null],
     answer |-> Null]

\* JavaScript truthiness of a response's data: null is falsy; a user object,
\* a response object and an array (empty or not) are truthy
Truthy(value) == value # Null

\* the callback of chrome.runtime.sendMessage({ action, data }, ...):
\* success === false rejects, else resolve(response?.data || response)
sendMessage(response) ==
    IF response.success = FALSE
    THEN [rejected |-> TRUE, value |-> Null]
    ELSE [rejected |-> FALSE,
          value |-> IF Truthy(response.data) THEN response.data ELSE response]

\* the request has reached the dispatcher
Reached(action) ==
    \/ \E q \in Procs : Busy(q) /\ proc[q].op = action
    \/ last.op = action

\* the response that arrived last has been taken by its callback
Delivered == last.op \notin cs.pending

\* useEffect: initializeSidePanel; loading, no error; get_user sent
initializeSidePanel ==
    /\ cs.pc = "mounted"
    /\ cs' = [cs EXCEPT !.pc = "get_user", !.loading = TRUE, !.error = "",
                        !.pending = {"get_user"}]
    /\ UNCHANGED bgVars

\* `const user = await sendMessage('get_user')` resumes: a rejection and a
\* falsy user show the authentication form, else loadUserData(user) sends
\* get_summaries and get_leads
UserReceived ==
    /\ cs.pc = "get_user"
    /\ last.op = "get_user"
    /\ LET user == sendMessage(last.resp)
       IN  IF ~user.rejected /\ Truthy(user.value)
           THEN /\ cs' = [cs EXCEPT !.pc = "load", !.arg = user.value,
                                    !.pending = {"get_summaries", "get_leads"},
                                    !.answer = last.resp]
                /\ ops' = 0
           ELSE /\ cs' = [cs EXCEPT !.pc = "done", !.user = Null, !.loading = FALSE,
                                    !.pending = {}, !.answer = last.resp]
                /\ ops' = ops
    /\ UNCHANGED <<store, currentUser, isInitialized, initPc, proc, last, now, nextId,
                   ticks, hist>>

\* array || []
OrEmpty(value) == IF Truthy(value) /\ "items" \in DOMAIN value THEN value.items ELSE <<>>

\* a response to get_summaries or get_leads arrives (.catch(() => [])); with
\* the second one Promise.all resolves and the state is set
ListReceived ==
    /\ cs.pc = "load"
    /\ last.op \in cs.pending
    /\ LET list == sendMessage(last.resp)
           value == IF list.rejected THEN Items(<<>>) ELSE list.value
           results == [cs.results EXCEPT ![last.op] = value]
           pending == cs.pending \ {last.op}
           summaries == OrEmpty(results.get_summaries)
           leads == OrEmpty(results.get_leads)
       IN  cs' = IF pending = {}
                 THEN [cs EXCEPT !.pc = "done", !.user = cs.arg,
                                 !.summaries = summaries, !.leads = leads,
                                 !.stats = Stats(summaries, leads),
                                 !.loading = FALSE, !.pending = {}, !.results = results]
                 ELSE [cs EXCEPT !.pending = pending, !.results = results]
    /\ UNCHANGED bgVars

PanelReads == {"get_summaries", "get_leads"}

InitPanel == InitBackground /\ cs = SidePanel

\* the background serves the requests the panel has sent, each once
NextPanel ==
    \/ Initialize
    \/ Tick
    \/ initializeSidePanel
    \/ \E p \in Procs : "get_user" \in cs.pending /\ ~Reached("get_user") /\ HandleGetUser(p)
    \/ \E p \in Procs : GetUserTimer(p)
    \/ \E p \in Procs : GetUserRead(p)
    \/ \E p \in Procs : GetUserSignOut(p)
    \/ UserReceived
    \/ \E p \in Procs, op \in PanelReads :
          op \in cs.pending /\ ~Reached(op) /\ Delivered /\ HandleRead(p, op)
    \/ \E p \in Procs : Delivered /\ ReadDone(p)
    \/ ListReceived

SpecPanel == InitPanel /\ [][NextPanel]_vars

----------------------------------------------------------------------------
(* Properties.  `last` is the invocation that finished last: its arguments, *)
(* its response, and what held when it was dispatched.                      *)

\* C1 (as stated): for every valid email e, password p of at least 6
\* characters and name n of at least 2 characters, where e is not registered,
\* sign_up(e,p,n) succeeds, and a subsequent sign_in(e,p) succeeds and returns
\* a user with the id that sign_up returned.
C1_AsStated ==
    /\ (/\ last.op = "sign_up"
        /\ isValidEmail(last.email)
        /\ Len(last.password) >= 6
        /\ Len(last.name) >= 2
        /\ ~last.registered)
       => last.resp.success
    /\ (last.op = "sign_in" /\ last.regId # 0)
       => (last.resp.success /\ last.resp.data # Null /\ last.resp.data.id = last.regId)

\* C1 (amended): the same, for a name whose length is at least 2 once leading
\* and trailing whitespace is removed.  The sign_in is one for an account
\* that a sign_up not overlapped by another request has registered (or that an
\* earlier run left behind), with no clear_all_data since.
C1_SignUpThenSignIn ==
    /\ (/\ last.op = "sign_up"
        /\ isValidEmail(last.email)
        /\ Len(last.password) >= 6
        /\ Len(Trim(last.name)) >= 2
        /\ ~last.registered)
       => (/\ last.resp.success
           /\ last.resp.data # Null
           /\ last.resp.error = "")
    /\ (last.op = "sign_in" /\ last.regId # 0)
       => (last.resp.success /\ last.resp.data # Null /\ last.resp.data.id = last.regId)

\* C1 witness: a sign_in has returned the user that a sign_up of this run created
C1_Witness ==
    /\ last.op = "sign_in"
    /\ last.regId \in hist.created
    /\ last.resp.success
    /\ last.resp.data.id = last.regId

\* handler p takes a step: every step of a handler moves its position
Steps(p) == proc[p].pc # "idle" /\ proc'[p].pc # proc[p].pc

\* a request or event `op` is dispatched in this step
Dispatched(op) ==
    /\ ops' = ops + 1
    /\ \/ \E p \in Procs : proc[p].pc = "idle" /\ proc'[p].pc # "idle" /\ proc'[p].op = op
       \/ (\A p \in Procs : proc'[p].pc = proc[p].pc) /\ last'.op = op

\* the email was given to some sign_up, and never with this password
WrongPassword(r) ==
    /\ \E pair \in hist.everPw : pair[1] = ToLowerCase(r.email)
    /\ <<ToLowerCase(r.email), r.password>> \notin hist.everPw

C2_Result ==
    (last.op = "sign_in" /\ WrongPassword(last))
    => (~last.resp.success /\ last.resp.data = Null /\ last.resp.error # "")

C2_Frame ==
    /\ \A p \in Procs :
          (proc[p].op = "sign_in" /\ Steps(p) /\ WrongPassword(proc[p]))
          => (store' = store /\ currentUser' = currentUser)
    /\ Dispatched("sign_in") => (store' = store /\ currentUser' = currentUser)

\* C2: sign_in with the email of a registered user and a password other than
\* the one given at sign_up returns an error and a null user, and none of its
\* steps changes the in-memory user, the persisted session, the users or the
\* credentials.
C2_WrongPasswordRejected == [](C2_Result) /\ [][C2_Frame]_vars

\* C2 witness: a sign_in that found the user's record and credential was refused
C2_Witness ==
    /\ last.op = "sign_in"
    /\ WrongPassword(last)
    /\ last.user # Null
    /\ Registered(store.users, last.email)
    /\ last.resp.error = "Invalid email or password"

\* C3 (as stated): a get_user issued after a sign_out has completed, with no
\* sign_in or sign_up installing a user since, returns no user; a sign_out that
\* ran alone leaves no user in memory and no session key in storage.
C3_AsStated ==
    /\ (last.op = "get_user" /\ last.postSignOut) => last.resp.data = Null
    /\ (last.op = "sign_out" /\ last.solo) => ~last.sessionLeft

\* C4 (as stated): a get_user issued when the stored tokenExpiry is in the
\* past, and served alone after initialisation, returns no user and leaves no
\* session behind.
C4_AsStated ==
    (last.op = "get_user" /\ last.expired /\ last.solo)
    => (last.resp.data = Null /\ ~last.sessionLeft)

C5_Result ==
    (last.op \in SaveOps /\ last.noSession) => last.resp = NotAuthenticated

C5_Frame ==
    \A op \in SaveOps :
        (Dispatched(op) /\ NoActiveSession)
        => /\ last'.op = op
           /\ last'.resp = NotAuthenticated
           /\ \A p \in Procs : proc'[p].pc = proc[p].pc
           /\ store' = store

\* C5: a save_summary, save_leads or save_price_monitor issued while no session
\* is active (no user in memory, no unexpired session in storage) answers
\* {success:false, error:"User not authenticated"} at once, and changes neither
\* its collection nor the activity log.
C5_SaveNeedsSession == [](C5_Result) /\ [][C5_Frame]_vars

\* C5 witness: a save was refused on a store without any session
C5_Witness ==
    /\ last.op \in SaveOps
    /\ last.noSession
    /\ last.resp = NotAuthenticated
    /\ store.contentSummaries = <<>> /\ store.leads = <<>> /\ store.priceMonitors = <<>>

\* C6 (as stated): a save request issued after the session's expiry time has
\* passed (and served alone) is rejected with "User not authenticated".
C6_AsStated ==
    (last.op \in SaveOps /\ last.expired /\ last.solo) => last.resp = NotAuthenticated

\* C7: the activity log never holds more than 100 entries.
C7_ActivityLogBounded == Len(store.userActivities) <= ActivityCap

\* C7 witness: a logging handler has written a full log from which it evicted
C7_Witness ==
    /\ Len(store.userActivities) = ActivityCap
    /\ last.op \in LogOps \cup SaveOps
    /\ last.evicted
    /\ store.userActivities[1].id >= FirstFreshId

NoDuplicateEmails ==
    \A i, j \in 1..Len(store.users) :
        i # j => ToLowerCase(store.users[i].email) # ToLowerCase(store.users[j].email)

C8_Rejected ==
    \A p \in Procs :
        (/\ proc[p].pc = "su_read_users"
         /\ Steps(p)
         /\ Registered(store.users, proc[p].email))
        => /\ last'.op = "sign_up" /\ last'.email = proc[p].email
           /\ ~last'.resp.success
           /\ last'.resp.data = Null
           /\ last'.resp.error # ""
           /\ proc'[p].pc = "idle"
           /\ store' = store
           /\ currentUser' = currentUser

\* C8: no two user records have emails equal up to letter case; a sign_up that
\* finds a user with its email (letter case ignored) is rejected with an error
\* and writes no user, no credential and no session, under every interleaving.
C8_UniqueEmails == [](NoDuplicateEmails) /\ [][C8_Rejected]_vars

\* C8 witness: a sign_up was refused for an email stored in another letter case
C8_Witness ==
    /\ last.op = "sign_up"
    /\ last.resp.error = "An account with this email already exists"
    /\ Registered(store.users, last.email)
    /\ \A i \in 1..Len(store.users) : store.users[i].email # last.email

Quiescent == \A p \in Procs : proc[p].pc = "idle"

CredentialsOf(id) ==
    {i \in 1..Len(store.userCredentials) : store.userCredentials[i].userId = id}

\* C9 (as stated): when no handler is running (and the data was never
\* cleared), every user record has exactly one credential with its id.
C9_AsStated ==
    (Quiescent /\ ~hist.cleared)
    => \A i \in 1..Len(store.users) :
           Cardinality(CredentialsOf(store.users[i].id)) = 1

\* C10 (as stated): a user whose sign_up has returned success stays in the
\* users collection (as long as the data is not cleared).
C10_AsStated ==
    ~hist.cleared
    => \A id \in hist.created : \E i \in 1..Len(store.users) : store.users[i].id = id

\* the records of collection c, as a set
Stored(c) == Range(store[c])

C11_Frame ==
    \A p \in Procs :
        /\ (proc[p].pc = "sv_write" /\ Steps(p))
           => store'[CollectionOf(proc[p].op)] = proc[p].list
        /\ (proc[p].pc = "log_write" /\ Steps(p))
           => store'.userActivities = proc[p].list

\* C11: the write of a save or of a log entry replaces the whole collection by
\* the array the handler built from its own earlier read, so whatever another
\* handler stored in between is discarded (the last writer wins); two
\* overlapping saves can thus both answer success while one record remains.
C11_LastWriterWins == [][C11_Frame]_vars

\* C11 witness: two save_summary requests have answered success and the
\* collection, never cleared, holds the record of one of them only
C11_Witness ==
    /\ ~hist.cleared
    /\ \E a, b \in hist.saved :
           /\ a.kind = "save_summary" /\ b.kind = "save_summary"
           /\ a \in Stored("contentSummaries")
           /\ b \notin Stored("contentSummaries")
    /\ Len(store.contentSummaries) = 1

\* C16 (as stated): a log_activity issued while no session is active answers
\* {success:false, error:"User not authenticated"}.
C16_AsStated ==
    (last.op = "log_activity" /\ last.noSession) => last.resp = NotAuthenticated

C17_Frame ==
    \A p \in Procs :
        (proc[p].pc = "sv_write" /\ Steps(p) /\ proc[p].solo)
        => LET c == CollectionOf(proc[p].op)
               k == PayloadSize(proc[p].op)
           IN  /\ Len(store'[c]) = Len(store[c]) + k
               /\ SubSeq(store'[c], 1, k) = proc[p].recs
               /\ SubSeq(store'[c], k + 1, Len(store'[c])) = store[c]
               /\ \A i \in 1..k : proc[p].recs[i] \notin Stored(c)

\* C17: when handlers run one at a time, the write of a save puts its new
\* records at the front of the collection and keeps every record stored
\* before, in the same order, behind them.
C17_SavePrepends == [][C17_Frame]_vars

\* C17 witness: a save_summary served alone has answered success, its record
\* is in front of the record of an earlier save
C17_Witness ==
    /\ last.op = "save_summary" /\ last.solo /\ last.resp.success
    /\ Len(store.contentSummaries) = 2
    /\ store.contentSummaries[1] = last.recs[1]
    /\ store.contentSummaries[2] \in hist.saved
    /\ store.contentSummaries[2].id < last.recs[1].id

C18_Frame ==
    \A p \in Procs :
        (/\ proc[p].pc = "log_write" /\ Steps(p) /\ proc[p].solo
         /\ Len(store.userActivities) = ActivityCap)
        => /\ Len(store'.userActivities) = ActivityCap
           /\ store'.userActivities[1] \notin Stored("userActivities")
           /\ store'.userActivities[1].action = ActivityOf(proc[p].op)
           /\ SubSeq(store'.userActivities, 2, ActivityCap)
                  = SubSeq(store.userActivities, 1, ActivityCap - 1)

\* C18: when the log holds 100 entries and a logging handler runs alone, its
\* write leaves the new entry at index 0 followed by the 99 most recent
\* earlier entries in their order; the oldest entry is the one evicted.
C18_OldestEvicted == [][C18_Frame]_vars

\* C18 witness: log_activity, served alone on the full log of the earlier run
\* (ids 1..100, newest first), has answered success and entry 100 is gone
C18_Witness ==
    /\ last.op = "log_activity" /\ last.solo /\ last.evicted /\ last.resp.success
    /\ Len(store.userActivities) = ActivityCap
    /\ store.userActivities[1].action = "custom"
    /\ store.userActivities[2].id = 1
    /\ store.userActivities[ActivityCap].id = ActivityCap - 1

\* { success: boolean, data?, error?: string }, with an error on failure
Envelope(resp) ==
    /\ resp # Null
    /\ resp.success \in BOOLEAN
    /\ ~resp.success => resp.error # ""

\* some step of handler p
HandlerStep(p) ==
    \/ GetUserTimer(p) \/ GetUserRead(p) \/ GetUserSignOut(p)
    \/ SignInReadUsers(p) \/ SignInReadCreds(p) \/ SignInHash(p)
    \/ SignInWriteUsers(p) \/ SignInWriteSession(p)
    \/ SignUpReadUsers(p) \/ SignUpHash(p) \/ SignUpWriteUsers(p)
    \/ SignUpReadCreds(p) \/ SignUpWriteCreds(p) \/ SignUpWriteSession(p)
    \/ SignOutRemove(p) \/ SaveRead(p) \/ SaveWrite(p) \/ ReadDone(p)
    \/ UsageRead(p) \/ LogRead(p) \/ LogWrite(p) \/ ClearAllData(p)

C13_Result ==
    /\ last.op # "none" => Envelope(last.resp)
    /\ \A p \in Procs : Busy(p) => ENABLED HandlerStep(p)

C13_Frame ==
    /\ \A p \in Procs :
           (Steps(p) /\ proc'[p].pc = "idle")
           => (last'.op = proc[p].op /\ Envelope(last'.resp))
    /\ (ops' = ops + 1 /\ \A p \in Procs : proc'[p].pc = proc[p].pc)
       => Envelope(last'.resp)

\* C13: every message, with its payload or without one, is answered by an
\* envelope with a boolean success and, on failure, an error string: a handler
\* that is running can always take its next step, the step that ends it
\* answers an envelope, and so does a dispatch that ends at once.
C13_AlwaysAnEnvelope == [](C13_Result) /\ [][C13_Frame]_vars

\* C13 witness: log_activity without a payload was answered with the error
\* of the failed field access
C13_Witness ==
    /\ last.op = "log_activity"
    /\ ~last.hasData
    /\ last.resp = Response(FALSE, Null, TypeErrorMessage)

\* the invocation that this step dispatches
Dispatching ==
    IF \A p \in Procs : proc'[p].pc = proc[p].pc
    THEN last'
    ELSE proc'[CHOOSE p \in Procs : proc[p].pc = "idle" /\ proc'[p].pc # "idle"]

InvalidSignUp(r) ==
    \/ r.email = <<>> \/ r.password = "" \/ r.name = <<>>
    \/ ~isValidEmail(r.email)
    \/ Len(r.password) < 6
    \/ Len(Trim(r.name)) < 2

InvalidSignIn(r) ==
    \/ r.email = <<>> \/ r.password = ""
    \/ ~isValidEmail(r.email)

C15_Frame ==
    (\/ Dispatched("sign_up") /\ InvalidSignUp(Dispatching)
     \/ Dispatched("sign_in") /\ InvalidSignIn(Dispatching))
    => /\ \A p \in Procs : proc'[p].pc = proc[p].pc
       /\ ~last'.resp.success
       /\ last'.resp.data = Null
       /\ last'.resp.error # ""
       /\ store' = store
       /\ currentUser' = currentUser

\* C15: a sign_up with a missing field, a malformed email, a password of
\* fewer than 6 characters or a name of trimmed length below 2, and a sign_in
\* with a missing field or a malformed email, are answered at dispatch, before
\* any storage call, with an error and a null user; the store and the
\* in-memory user stay as they are.
C15_RejectedBeforeStore == [][C15_Frame]_vars

\* C15 witness: a sign_up with a blank-padded one-letter name was refused
\* while a user record was stored
C15_Witness ==
    /\ last.op = "sign_up" /\ last.hasData
    /\ last.name = <<"a", " ">>
    /\ last.resp = Response(FALSE, Null, "Name must be at least 2 characters long")
    /\ store.users # <<>>

\* C14 (as stated): a save or log_activity during which a storage read or
\* write failed is answered {success:false, error}.
C14_AsStated ==
    (last.op \in SaveOps \cup {"log_activity"} /\ last.faulted) => ~last.resp.success

C12_Frame ==
    /\ \A action \in UnknownActions :
          Dispatched(action)
          => /\ \A p \in Procs : proc'[p].pc = proc[p].pc
             /\ last'.resp.success = FALSE
             /\ last'.resp.error = "Unknown action"
             /\ store' = store
             /\ currentUser' = currentUser
    /\ (cs' # cs /\ cs'.op \in ContentUnknownActions)
       => /\ cs'.resp.success = FALSE
          /\ cs'.resp.error = "Unknown action"
          /\ cs'.page = cs.page
          /\ cs'.ui = cs.ui
          /\ store' = store
          /\ currentUser' = currentUser

\* C12: the background dispatcher and the content-script dispatcher answer a
\* message whose action they have no case for, a message without an action
\* field included, with success false and the error "Unknown action", and
\* the step changes neither the store, the in-memory user, the page nor the
\* panel.
C12_UnknownAction == [][C12_Frame]_vars

\* C12 witness: over a store that holds a user, the background refused
\* 'process_summary' and the content script refused a message without action
C12_Witness ==
    /\ last.op = "process_summary"
    /\ last.resp = Response(FALSE, Null, "Unknown action")
    /\ cs.op = ""
    /\ cs.resp = Response(FALSE, Null, "Unknown action")
    /\ store.users # <<>>

\* the leads of `leads` that carry the email, or the phone, `text`
LeadsWithEmail(leads, text) ==
    {i \in 1..Len(leads) : "email" \in DOMAIN leads[i] /\ leads[i].email = text}

LeadsWithPhone(leads, text) ==
    {i \in 1..Len(leads) : "phone" \in DOMAIN leads[i] /\ leads[i].phone = text}

\* C19: extract_leads answers exactly one lead for each distinct email string
\* and one for each distinct phone string that the patterns match in the
\* page text, however often the string occurs; every lead carries the page's
\* URL as source and verified = false, and count is the number of leads.
C19_OneLeadPerMatch ==
    cs.op = "extract_leads"
    => LET leads == cs.resp.data.leads
           emails == Range(MatchAll(emailRegex, cs.page.body, 1))
           phones == Range(MatchAll(phoneRegex, cs.page.body, 1))
       IN  /\ cs.resp.success
           /\ \A email \in emails : Cardinality(LeadsWithEmail(leads, email)) = 1
           /\ \A phone \in phones : Cardinality(LeadsWithPhone(leads, phone)) = 1
           /\ Len(leads) = Cardinality(emails) + Cardinality(phones)
           /\ \A i \in 1..Len(leads) :
                 leads[i].source = cs.page.url /\ leads[i].verified = FALSE
           /\ cs.resp.data.count = Len(leads)

\* C19 witness: the page text holds the same email twice and extract_leads
\* answered a single lead, with that email
C19_Witness ==
    /\ cs.op = "extract_leads"
    /\ MatchAll(emailRegex, cs.page.body, 1)
         = << <<"a", "@", "b", ".", "c", "o">>, <<"a", "@", "b", ".", "c", "o">> >>
    /\ cs.resp.data.count = 1
    /\ cs.resp.data.leads[1].email = <<"a", "@", "b", ".", "c", "o">>

\* an element of the page answers to one of the selectors probed for `selector`
SelectorMatches(page, selector) ==
    \E i \in 1..Len(page.elements), k \in 1..Len(priceSelectors(selector)) :
        page.elements[i].sel = priceSelectors(selector)[k]

\* the text holds a digit
HasNumber(text) == \E i \in 1..Len(text) : text[i] \in Digits

\* C20 (as stated): monitor_price answers success false with a non-empty
\* error whenever no probed selector matches an element or the text of the
\* matched element holds no number; whenever it answers success true,
\* currentPrice is a number, never NaN.
C20_AsStated ==
    cs.op = "monitor_price"
    => /\ (\/ ~SelectorMatches(cs.page, cs.selector)
            \/ ~HasNumber(FirstElement(cs.page, priceSelectors(cs.selector), 1).text))
           => (~cs.resp.success /\ cs.resp.error # "")
       /\ cs.resp.success => cs.resp.data.currentPrice # NaN

\* some selector built from `key` matches a control of `controls`
KeyMatches(controls, key) ==
    \E i \in 1..Len(controls), k \in 1..Len(formSelectors) :
        MatchesSelector(controls[i], formSelectors[k], key)

\* the step handles a fill_form message that carries a field map
FillsForm == cs' # cs /\ cs'.op = "fill_form" /\ cs'.formData # Null

C21_Frame ==
    FillsForm
    => LET entries == cs'.formData.entries
           before == cs.page.controls
           after == cs'.page.controls
           found == Cardinality({i \in 1..Len(entries) : KeyMatches(before, entries[i].key)})
       IN  /\ cs'.resp.success
           /\ cs'.resp.data.totalFields = Len(entries)
           /\ cs'.resp.data.fieldsFound = found
           /\ 0 <= found /\ found <= Len(entries)
           /\ found = 0 => after = before
           /\ Len(after) = Len(before)
           /\ \A c \in 1..Len(before) :
                 after[c] # before[c]
                 => /\ after[c] = [before[c] EXCEPT !.value = after[c].value]
                    /\ \E i \in 1..Len(entries) :
                          /\ FirstControl(before, entries[i].key, 1) = c
                          /\ after[c].value = entries[i].value

\* C21 (as stated): fill_form with a field map answers success true with
\* totalFields the number of keys and fieldsFound the number of keys for which
\* one of the five selectors matches a control; only the first control found
\* for a key is written, and when nothing matches no control is modified.
C21_AsStated == [][C21_Frame]_vars

PageTypes == <<"social-media", "ecommerce", "job-board", "article", "form-page", "general">>

\* the conditions of the six page types on a document, in the order of PageTypes
TypeConditions(page) ==
    <<isSocialDomain(ToLowerCase(page.url)),
      isEcommerceHint(ToLowerCase(page.url), ToLowerCase(page.content)),
      isJobHint(ToLowerCase(page.url), ToLowerCase(page.title)),
      hasArticle(page),
      HasTag(page, "form"),
      TRUE>>

C22_Result ==
    cs.context # Null
    => LET conditions == TypeConditions(cs.analysed)
           first == CHOOSE k \in 1..Len(PageTypes) :
                        conditions[k] /\ \A j \in 1..(k - 1) : ~conditions[j]
       IN  cs.context.pageType = PageTypes[first]

C22_Frame ==
    (cs.context # Null /\ cs'.analysed = cs.analysed)
    => cs'.context.pageType = cs.context.pageType

\* C22: the page type that an analysis reports is the first of social-media,
\* ecommerce, job-board, article, form-page, general whose condition the
\* analysed document satisfies, general when it satisfies none of the first
\* five, and an analysis that reads the same document again reports the same
\* type.
C22_FirstMatchWins == [](C22_Result) /\ [][C22_Frame]_vars

\* C22 witness: a page on linkedin.com/jobs titled "jobs", with a form, was
\* analysed a second time after a form was added and is social-media
C22_Witness ==
    /\ cs.context # Null
    /\ cs.context.pageType = "social-media"
    /\ TypeConditions(cs.analysed)[3]
    /\ TypeConditions(cs.analysed)[5]
    /\ cs.timers = 0
    /\ cs.menu # InjectedMenu

\* the visibility that the policy gives a floating action under a context
VisibilityPolicy(action, context) ==
    CASE action = "summarize" ->
             \/ context.pageType = "article"
             \/ Includes(context.url, <<"n", "e", "w", "s">>)
             \/ Includes(context.url, <<"b", "l", "o", "g">>)
      [] action = "extract" -> TRUE
      [] action = "autofill" -> context.hasForm
      [] action = "leads" -> context.hasContactInfo \/ context.isSocialMedia
      [] action = "monitor" -> context.isEcommerce /\ context.hasPricing
      [] OTHER -> FALSE

\* C23 (as stated): once the page is analysed and the menu is in the
\* document, each floating action is shown exactly when the policy shows it
\* for the page context: summarize iff the page type is article or the URL
\* holds "news" or "blog", extract always, autofill iff hasForm, leads iff
\* hasContactInfo or isSocialMedia, monitor iff isEcommerce and hasPricing.
C23_AsStated ==
    (cs.context # Null /\ cs.menu # Null)
    => \A action \in FabOptions :
          (cs.menu.display[action] # "none") <=> VisibilityPolicy(action, cs.context)

\* the batch inserts an element that is or contains a form or an element
\* with class "price"
QualifyingBatch(mutations) ==
    \E el \in AddedElements(mutations) : el.tag = "form" \/ el.class = <<"p", "r", "i", "c", "e">>

C24_Frame ==
    \A mutations \in Batches :
        (DocumentChanges(mutations) /\ ~QualifyingBatch(mutations))
        => /\ cs'.timers = cs.timers
           /\ cs'.context = cs.context

\* C24 (as stated): re-analysis is debounced.  Qualifying batches that arrive
\* while a re-analysis is still pending do not add re-analyses, so at most
\* one is pending at any time and it runs once after the batches settle; a
\* batch that does not qualify schedules and runs nothing.
C24_AsStated == [](cs.timers <= 1) /\ [][C24_Frame]_vars

\* C25: in every state the persisted currentUser, authToken and tokenExpiry
\* are all present or all absent, and a persisted authToken carries the id of
\* the persisted currentUser, whatever the interleaving of sign_up, sign_in,
\* sign_out, expiry handling and clear_all_data.
C25_SessionAllOrNone ==
    /\ (store.currentUser # Null) = (store.authToken # Null)
    /\ (store.authToken # Null) = (store.tokenExpiry # 0)
    /\ store.currentUser # Null => store.authToken.userId = store.currentUser.id

\* C25 witness: after a sign_out removed the session, a sign_up or sign_in
\* that overlapped another request persisted a session of its own
C25_Witness ==
    /\ hist.signedOut
    /\ last.op \in {"sign_up", "sign_in"}
    /\ ~last.solo
    /\ store.currentUser # Null
    /\ store.authToken.userId = store.currentUser.id
    /\ store.tokenExpiry # 0

\* C26 (as stated): a get_user dispatched after clear_all_data has answered
\* success, with no sign_up or sign_in installing a user since, answers no
\* user, and a save dispatched then is refused as not authenticated.
C26_AsStated ==
    (last.postClear /\ hist.sessionCleared)
    => /\ last.op = "get_user" => last.resp.data = Null
       /\ last.op \in SaveOps => last.resp = NotAuthenticated

\* C27 (as stated): when sign_out starts while initialize or a get_user is
\* still reading the session keys, then once the sign_out, the read and every
\* other handler have completed (and no sign_up or sign_in has installed a
\* user since) the in-memory user is null, and a get_user that completed last
\* answered no user.
C27_AsStated ==
    (/\ hist.overlapped
     /\ hist.signedOut
     /\ initPc = "done"
     /\ \A p \in Procs : ~Busy(p))
    => /\ currentUser = Null
       /\ last.op = "get_user" => last.resp.data = Null

\* C28 (as stated): a save_summary, save_leads or save_price_monitor that is
\* dispatched while initialize has not completed and storage holds an
\* unexpired session is not answered "User not authenticated".
C28_AsStated ==
    (last.op \in SaveOps /\ last.early) => last.resp # NotAuthenticated

\* C29 (as stated): no request that the side panel or a content script sends
\* to the background is answered "Unknown action" by the dispatcher.
C29_AsStated ==
    (last.op \in ClientActions /\ last.resp # Null) => last.resp.error # "Unknown action"

\* C30 (as stated): once initializeSidePanel has finished, the panel's user
\* is non-null only if the get_user response carried a non-null user, and a
\* get_user response { success: true, data: null } leaves the user null.
C30_AsStated ==
    cs.pc = "done"
    => /\ cs.user # Null => cs.answer.data # Null
       /\ cs.answer = Response(TRUE, Null, "") => cs.user = Null

====
